---- MODULE Spec2Model ----
(***************************************************************************)
(* Model of the query-filter and pagination engine of the Enerlytics       *)
(* backend: the query parser (src/core/query_parser.py), the page          *)
(* parameter dependencies (src/core/dependencies.py), the predicate        *)
(* compiler Base.apply_filter and Base.list (src/database/models.py), the  *)
(* pagination engine (src/database/pagination.py) and the list, update and *)
(* delete endpoints that drive them, and the token authentication of     *)
(* src/core/auth.py with the /auth endpoints of src/apps/users/router.py.  *)
(*                                                                         *)
(* Python strings are sequences of one-character strings, so that          *)
(* splitting, trimming, case folding and number parsing are computed.      *)
(* Python values are tagged tuples: <<"str", chars>>, <<"int", n>>,        *)
(* <<"float", <<n, e>>>> (n * 10^-e), <<"bool", b>>, <<"list", seq>> and   *)
(* <<"none">> for None / SQL NULL.                                         *)
(***************************************************************************)
EXTENDS Integers, Sequences, FiniteSets, TLC

VARIABLES
    \* ---- query parser (one call of parse_filters)
    query_params,      \* the dict handed to parse_filters, in iteration order
    allowed_fields,    \* the allow-list handed to parse_filters
    parsed_filters,    \* per parameter: what the loop body contributed
    filters,           \* the list parse_query_params returns
    ppc,               \* "input" before the call, "done" after it
    \* ---- tables
    alerts,            \* rows of the alerts table
    readings,          \* rows of the readings table
    clock,             \* ticks of datetime.now() so far; also numbers the ids
    \* ---- one call of Base.list / paginate_query
    lpc,               \* position of the call
    caller,            \* which operation made the call
    l_table,           \* the table the query selects from
    l_filters,         \* primary filters (AND)
    search_filters,    \* search filters (OR), or <<"none">>
    page_params,       \* the PageParams handed to paginate_query
    total,             \* result of the count query
    total_pages,       \* pages computed from total and size
    changed,           \* the table was written after the count query ran
    response,          \* the PaginatedResponse, or <<"none">>
    \* ---- one HTTP request to an endpoint
    rpc,               \* position of the request
    request,           \* the request being served
    http_status,       \* status code of the response, 0 while none
    resolved,          \* what the page-parameter dependency gave the handler
    \* ---- one call of QueryParser._parse_single_param
    sp_key,            \* its argument key
    sp_value,          \* its argument value
    sp_allowed,        \* its argument allowed_fields
    sp_field,          \* the local field after the split
    sp_operator,       \* the local operator_str after the split
    sp_parsed,         \* the local parsed_value, <<"unset">> when never assigned
    sp_filters,        \* the list it returns
    spc,               \* "input" before the call, "done" after it
    \* ---- one call of build_search_filters
    bs_term,           \* its argument search_term
    bs_fields,         \* its argument fields
    bs_result,         \* the list it returns
    bpc,               \* "input" before the call, "done" after it
    \* ---- authentication (src/core/auth.py, src/apps/users/router.py)
    users,             \* rows of the users table
    tokens,            \* the tokens issued so far
    token_blacklist,   \* rows of the token_blacklist table
    auth_request,      \* the last request to an /auth endpoint
    auth_status,       \* status code of its response, 0 while none
    logged_out,        \* history: tokens a logout handler has run for
    token_response,    \* the last call of a token-creating function and its result
    current_user       \* type of the user get_users was called by, or <<"none">>

parser_vars == <<query_params, allowed_fields, parsed_filters, filters, ppc>>
table_vars == <<alerts, readings, clock>>
list_vars == <<lpc, caller, l_table, l_filters, search_filters, page_params,
               total, total_pages, changed, response>>
request_vars == <<rpc, request, http_status, resolved>>
param_vars == <<sp_key, sp_value, sp_allowed, sp_field, sp_operator, sp_parsed,
                sp_filters, spc>>
search_vars == <<bs_term, bs_fields, bs_result, bpc>>
auth_vars == <<users, tokens, token_blacklist, auth_request, auth_status, logged_out,
              token_response>>
vars == <<parser_vars, table_vars, list_vars, request_vars, param_vars, search_vars,
          auth_vars, current_user>>

\* ------------------------------------------------------------------------
\* Bounds of the model

MaxParams == 2
MaxRows == 3
MaxPage == 3
MaxSize == 2
MaxBulk == 2
MaxUsers == 2
MaxTokens == 3
MaxNow == 7

\* ------------------------------------------------------------------------
\* Python values

NONE == <<"none">>
StrV(s) == <<"str", s>>
IntV(n) == <<"int", n>>
FloatV(n, e) == <<"float", <<n, e>>>>
BoolV(b) == <<"bool", b>>
ListV(l) == <<"list", l>>
Kind(v) == v[1]
Val(v) == v[2]

\* ------------------------------------------------------------------------
\* Python string operations

Digits == <<"0", "1", "2", "3", "4", "5", "6", "7", "8", "9">>
Upper == <<"A", "B", "C", "D", "E", "F", "G", "H", "I", "J", "K", "L", "M",
           "N", "O", "P", "Q", "R", "S", "T", "U", "V", "W", "X", "Y", "Z">>
Lower == <<"a", "b", "c", "d", "e", "f", "g", "h", "i", "j", "k", "l", "m",
           "n", "o", "p", "q", "r", "s", "t", "u", "v", "w", "x", "y", "z">>

IsDigit(c) == \E i \in 1..10 : Digits[i] = c
DigitVal(c) == (CHOOSE i \in 1..10 : Digits[i] = c) - 1

\* str.lower()
LowerChar(c) == IF \E i \in 1..26 : Upper[i] = c
                THEN Lower[CHOOSE i \in 1..26 : Upper[i] = c]
                ELSE c
\* no case folding: the text is compared as written
lower_AsWritten(s) == s

lower(s) == [i \in 1..Len(s) |-> LowerChar(s[i])]

\* c in s, for a one-character c
Contains(s, c) == \E i \in 1..Len(s) : s[i] = c

\* str.strip(): the whitespace of the modelled alphabet is the blank
RECURSIVE lstrip(_)
lstrip(s) == IF s # <<>> /\ Head(s) = " " THEN lstrip(Tail(s)) ELSE s
RECURSIVE rstrip(_)
rstrip(s) == IF s # <<>> /\ s[Len(s)] = " " THEN rstrip(SubSeq(s, 1, Len(s) - 1)) ELSE s
strip(s) == rstrip(lstrip(s))

\* str.split(c, 1): the text is cut at the first separator only
split_AtMostOnce(s, c) ==
    IF ~Contains(s, c) THEN <<s>>
    ELSE LET i == CHOOSE j \in 1..Len(s) : s[j] = c /\ \A k \in 1..(j - 1) : s[k] # c
         IN  <<SubSeq(s, 1, i - 1), SubSeq(s, i + 1, Len(s))>>

\* str.split(c): a list of strings, never empty
RECURSIVE split(_, _)
split(s, c) ==
    IF ~Contains(s, c) THEN <<s>>
    ELSE LET i == CHOOSE j \in 1..Len(s) : s[j] = c /\ \A k \in 1..(j - 1) : s[k] # c
         IN  <<SubSeq(s, 1, i - 1)>> \o split(SubSeq(s, i + 1, Len(s)), c)

\* index of the last "__" in key (key.rsplit), 0 if there is none
FindDunder_Last(key) ==
    LET hits == {i \in 1..(Len(key) - 1) : key[i] = "_" /\ key[i + 1] = "_"}
    IN  IF hits = {} THEN 0 ELSE CHOOSE i \in hits : \A j \in hits : i >= j

\* index of the first "__" in key, 0 if there is none
FindDunder(key) ==
    LET hits == {i \in 1..(Len(key) - 1) : key[i] = "_" /\ key[i + 1] = "_"}
    IN  IF hits = {} THEN 0 ELSE CHOOSE i \in hits : \A j \in hits : i <= j

\* ------------------------------------------------------------------------
\* int(s) and float(s)

\* digits, single underscores allowed between digits
IsDigitRun(s) ==
    /\ s # <<>>
    /\ \A i \in 1..Len(s) : IsDigit(s[i]) \/ s[i] = "_"
    /\ IsDigit(s[1]) /\ IsDigit(s[Len(s)])
    /\ \A i \in 1..(Len(s) - 1) : ~(s[i] = "_" /\ s[i + 1] = "_")

Unsigned(s) == IF s # <<>> /\ (Head(s) = "-" \/ Head(s) = "+") THEN Tail(s) ELSE s
Sign(s) == IF s # <<>> /\ Head(s) = "-" THEN -1 ELSE 1

RECURSIVE DigitRunValue(_)
DigitRunValue(s) ==
    IF s = <<>> THEN 0
    ELSE IF s[Len(s)] = "_" THEN DigitRunValue(SubSeq(s, 1, Len(s) - 1))
    ELSE 10 * DigitRunValue(SubSeq(s, 1, Len(s) - 1)) + DigitVal(s[Len(s)])

RECURSIVE CountDigits(_)
CountDigits(s) ==
    IF s = <<>> THEN 0
    ELSE (IF IsDigit(Head(s)) THEN 1 ELSE 0) + CountDigits(Tail(s))

\* int(s) does not raise ValueError
IntParses(s) == IsDigitRun(Unsigned(strip(s)))
IntOf(s) == IntV(Sign(strip(s)) * DigitRunValue(Unsigned(strip(s))))

\* float(s) does not raise ValueError, for s containing "."
FloatParses(s) ==
    LET u == Unsigned(strip(s))
        p == split(u, ".")
    IN  /\ Len(p) = 2
        /\ p[1] # <<>> \/ p[2] # <<>>
        /\ p[1] = <<>> \/ IsDigitRun(p[1])
        /\ p[2] = <<>> \/ IsDigitRun(p[2])

\* a float is kept as n * 10^-e with no trailing zero in the fraction
RECURSIVE NormFloat(_, _)
NormFloat(n, e) == IF e > 0 /\ n % 10 = 0 THEN NormFloat(n \div 10, e - 1) ELSE FloatV(n, e)
FloatOf(s) ==
    LET u == Unsigned(strip(s))
        p == split(u, ".")
        n == DigitRunValue(p[1] \o p[2])
    IN  NormFloat(Sign(strip(s)) * n, CountDigits(p[2]))

\* int(p) only: a text with "." is never converted
NumberParses_IntOnly(p) == ~Contains(p, ".") /\ IntParses(p)

\* float(p) if "." in p else int(p)
NumberParses(p) == IF Contains(p, ".") THEN FloatParses(p) ELSE IntParses(p)
NumberOf(p) == IF Contains(p, ".") THEN FloatOf(p) ELSE IntOf(p)

\* ------------------------------------------------------------------------
\* String literals of the source, as character sequences

S_filters == <<"f", "i", "l", "t", "e", "r", "s">>
S_page == <<"p", "a", "g", "e">>
S_size == <<"s", "i", "z", "e">>
S_sort_by == <<"s", "o", "r", "t", "_", "b", "y">>
S_sort_order == <<"s", "o", "r", "t", "_", "o", "r", "d", "e", "r">>
S_search == <<"s", "e", "a", "r", "c", "h">>
OP_eq == <<"=", "=">>
OP_ne == <<"!", "=">>
OP_gt == <<">">>
OP_ge == <<">", "=">>
OP_lt == <<"<">>
OP_le == <<"<", "=">>
OP_in == <<"i", "n">>
OP_not_in == <<"n", "o", "t", " ", "i", "n">>
OP_is == <<"i", "s">>
OP_is_not == <<"i", "s", " ", "n", "o", "t">>
OP_like == <<"l", "i", "k", "e">>
OP_ilike == <<"i", "l", "i", "k", "e">>
OP_between == <<"b", "e", "t", "w", "e", "e", "n">>
OP_not_between == <<"n", "o", "t", " ", "b", "e", "t", "w", "e", "e", "n">>
F_id == <<"i", "d">>
F_title == <<"t", "i", "t", "l", "e">>
F_message == <<"m", "e", "s", "s", "a", "g", "e">>
F_status == <<"s", "t", "a", "t", "u", "s">>
F_created_at == <<"c", "r", "e", "a", "t", "e", "d", "_", "a", "t">>
F_updated_at == <<"u", "p", "d", "a", "t", "e", "d", "_", "a", "t">>
F_value == <<"v", "a", "l", "u", "e">>
F_secret == <<"s", "e", "c", "r", "e", "t">>
S_true == <<"t", "r", "u", "e">>
S_false == <<"f", "a", "l", "s", "e">>
S_null == <<"n", "u", "l", "l">>
S_none == <<"n", "o", "n", "e">>
S_info == <<"i", "n", "f", "o">>
S_warning == <<"w", "a", "r", "n", "i", "n", "g">>
S_expired == <<"e", "x", "p", "i", "r", "e", "d">>
S_asc == <<"a", "s", "c">>
S_desc == <<"d", "e", "s", "c">>

\* ------------------------------------------------------------------------
\* Query parser (src/core/query_parser.py)

Range(s) == {s[i] : i \in 1..Len(s)}

Filter(field, operator, value) == [field |-> field, operator |-> operator, value |-> value]

SUPPORTED_OPERATORS ==
    <<OP_eq, OP_ne, OP_gt, OP_ge, OP_lt, OP_le, OP_in, OP_not_in,
      OP_is, OP_is_not, OP_like, OP_ilike, OP_between, OP_not_between>>

\* the keys parse_query_params skips
ReservedKeys == <<S_filters, S_page, S_size, S_sort_by, S_sort_order, S_search>>

\* [v.strip() for v in value.split(",")]: empty tokens are kept
RECURSIVE StripTokens_KeepEmpty(_)
StripTokens_KeepEmpty(parts) ==
    IF parts = <<>> THEN <<>>
    ELSE <<StrV(strip(Head(parts)))>> \o StripTokens_KeepEmpty(Tail(parts))

\* [v.strip() for v in value.split(",") if v.strip()]
RECURSIVE StripTokens(_)
StripTokens(parts) ==
    IF parts = <<>> THEN <<>>
    ELSE (IF strip(Head(parts)) # <<>> THEN <<StrV(strip(Head(parts)))>> ELSE <<>>)
         \o StripTokens(Tail(parts))

_parse_value(value, operator) ==
    IF value = NONE THEN NONE
    ELSE IF Kind(value) = "str" THEN
        LET s == Val(value) IN
        IF operator \in {OP_in, OP_not_in} THEN
            ListV(StripTokens(split(s, ",")))
        ELSE IF operator \in {OP_between, OP_not_between} THEN
            LET raw == split(s, ",")
                parts == [i \in 1..Len(raw) |-> strip(raw[i])]
            IN  IF Len(parts) = 2 THEN
                    IF NumberParses(parts[1]) /\ NumberParses(parts[2])
                    THEN ListV(<<NumberOf(parts[1]), NumberOf(parts[2])>>)
                    ELSE ListV(<<StrV(parts[1]), StrV(parts[2])>>)
                ELSE NONE
        ELSE IF lower(s) \in {S_true, S_false} THEN BoolV(lower(s) = S_true)
        ELSE IF lower(s) \in {S_null, S_none} THEN NONE
        ELSE IF NumberParses(s) THEN NumberOf(s)
        ELSE value
    ELSE value

\* key.split("__", 1), or (key, "==")
KeyField(key) == IF FindDunder(key) > 0 THEN SubSeq(key, 1, FindDunder(key) - 1) ELSE key
KeyOperator(key) ==
    IF FindDunder(key) > 0 THEN SubSeq(key, FindDunder(key) + 2, Len(key)) ELSE OP_eq

\* "if allowed_fields and field not in allowed_fields: return []"
FieldRejected(field, allowed) == allowed # <<>> /\ field \notin Range(allowed)

\* the check with the operator list left out: only a missing operator is refused
OperatorRejected_OnlyEmpty(operator_str) == operator_str = <<>>

\* "if operator_str not in cls.SUPPORTED_OPERATORS: return []"
OperatorRejected(operator_str) == operator_str \notin Range(SUPPORTED_OPERATORS)

\* the filter is appended without the "parsed_value is not None" test
_parse_single_param_KeepNone(key, value, allowed) ==
    LET field == KeyField(key)
        operator_str == KeyOperator(key)
        parsed_value == _parse_value(value, operator_str)
    IN  IF FieldRejected(field, allowed) THEN <<>>
        ELSE IF OperatorRejected(operator_str) THEN <<>>
        ELSE <<Filter(field, operator_str, parsed_value)>>

_parse_single_param(key, value, allowed) ==
    LET field == KeyField(key)
        operator_str == KeyOperator(key)
        parsed_value == _parse_value(value, operator_str)
    IN  IF FieldRejected(field, allowed) THEN <<>>
        ELSE IF OperatorRejected(operator_str) THEN <<>>
        ELSE IF parsed_value # NONE THEN <<Filter(field, operator_str, parsed_value)>>
        ELSE <<>>

\* one iteration of the loop of parse_query_params: what it appends to filters
LoopBody(param, allowed) ==
    IF param.key \in Range(ReservedKeys) THEN <<>>
    ELSE IF param.value = NONE \/ param.value = StrV(<<>>) THEN <<>>
    ELSE _parse_single_param(param.key, param.value, allowed)

RECURSIVE parse_query_params(_, _)
parse_query_params(params, allowed) ==
    IF params = <<>> THEN <<>>
    ELSE LoopBody(Head(params), allowed) \o parse_query_params(Tail(params), allowed)

parse_filters(params, allowed) == parse_query_params(params, allowed)

\* ------------------------------------------------------------------------
\* Tables and column values

\* code-point order of the modelled alphabet
CharOrder == <<" ", "!", "%", "+", ",", "-", ".">> \o Digits \o <<"<", "=", ">">>
             \o Upper \o <<"_">> \o Lower
Rank(c) == CHOOSE i \in 1..Len(CharOrder) : CharOrder[i] = c

RECURSIVE StrLess(_, _)
StrLess(a, b) ==
    IF b = <<>> THEN FALSE
    ELSE IF a = <<>> THEN TRUE
    ELSE IF Head(a) = Head(b) THEN StrLess(Tail(a), Tail(b))
    ELSE Rank(Head(a)) < Rank(Head(b))

RECURSIVE Pow10(_)
Pow10(e) == IF e = 0 THEN 1 ELSE 10 * Pow10(e - 1)

IsNumber(v) == Kind(v) \in {"int", "float"}
NumN(v) == IF Kind(v) = "int" THEN Val(v) ELSE Val(v)[1]
NumE(v) == IF Kind(v) = "int" THEN 0 ELSE Val(v)[2]

\* a < b for two column values of one type
Less(a, b) ==
    IF IsNumber(a) /\ IsNumber(b)
    THEN NumN(a) * Pow10(NumE(b)) < NumN(b) * Pow10(NumE(a))
    ELSE StrLess(Val(a), Val(b))

\* a = b as SQL compares values (1 = 1.0)
SameValue(a, b) ==
    IF IsNumber(a) /\ IsNumber(b)
    THEN NumN(a) * Pow10(NumE(b)) = NumN(b) * Pow10(NumE(a))
    ELSE a = b

\* columns of the Alert model (Base columns and its own)
AlertColumns == {F_id, F_created_at, F_updated_at, F_title, F_message, F_status}
\* columns of the Reading model used by the bulk endpoints
ReadingColumns == {F_id, F_created_at, F_updated_at, F_value}

Columns(table) == IF table = "alerts" THEN AlertColumns ELSE ReadingColumns

\* ------------------------------------------------------------------------
\* SQL predicates: three-valued, "T", "F" or "N" (NULL)

Not3(x) == IF x = "T" THEN "F" ELSE IF x = "F" THEN "T" ELSE "N"
Bool3(b) == IF b THEN "T" ELSE "F"

\* LIKE: % matches any run of characters, _ any one character
RECURSIVE Like(_, _)
Like(p, s) ==
    IF p = <<>> THEN s = <<>>
    ELSE IF Head(p) = "%" THEN Like(Tail(p), s) \/ (s # <<>> /\ Like(p, Tail(s)))
    ELSE IF Head(p) = "_" THEN s # <<>> /\ Like(Tail(p), Tail(s))
    ELSE s # <<>> /\ Head(s) = Head(p) /\ Like(Tail(p), Tail(s))

In3(col, elems) ==
    IF col = NONE THEN "N"
    ELSE Bool3(\E i \in 1..Len(elems) : SameValue(col, elems[i]))

Between3(col, lo, hi) ==
    IF col = NONE THEN "N"
    ELSE Bool3(~Less(col, lo) /\ ~Less(hi, col))

\* the condition apply_filter appends for one filter, evaluated on a row
Condition(row, f) ==
    LET col == row[f.field]
        v == f.value
        op == f.operator
    IN  IF op = OP_eq THEN
            (IF v = NONE THEN Bool3(col = NONE)
             ELSE IF col = NONE THEN "N" ELSE Bool3(SameValue(col, v)))
        ELSE IF op = OP_ne THEN
            (IF v = NONE THEN Bool3(col # NONE)
             ELSE IF col = NONE THEN "N" ELSE Bool3(~SameValue(col, v)))
        ELSE IF op = OP_gt THEN (IF col = NONE THEN "N" ELSE Bool3(Less(v, col)))
        ELSE IF op = OP_ge THEN (IF col = NONE THEN "N" ELSE Bool3(~Less(col, v)))
        ELSE IF op = OP_lt THEN (IF col = NONE THEN "N" ELSE Bool3(Less(col, v)))
        ELSE IF op = OP_le THEN (IF col = NONE THEN "N" ELSE Bool3(~Less(v, col)))
        ELSE IF op = OP_in THEN In3(col, Val(v))
        ELSE IF op = OP_not_in THEN Not3(In3(col, Val(v)))
        ELSE IF op = OP_is THEN Bool3(col = v)
        ELSE IF op = OP_is_not THEN Bool3(col # v)
        ELSE IF op = OP_like THEN
            (IF col = NONE THEN "N" ELSE Bool3(Like(Val(v), Val(col))))
        ELSE IF op = OP_ilike THEN
            (IF col = NONE THEN "N" ELSE Bool3(Like(lower(Val(v)), lower(Val(col)))))
        ELSE IF op = OP_between THEN Between3(col, Val(v)[1], Val(v)[2])
        ELSE Not3(Between3(col, Val(v)[1], Val(v)[2]))

\* apply_filter raises: unknown attribute, unknown operator, or a between
\* value that cannot be indexed twice
FilterRaises(table, f) ==
    \/ f.field \notin Columns(table)
    \/ f.operator \notin Range(SUPPORTED_OPERATORS)
    \/ /\ f.operator \in {OP_between, OP_not_between}
       /\ ~(Kind(f.value) \in {"list", "str"} /\ Len(Val(f.value)) >= 2)

\* the store rejects the statement: operand types that do not fit the column
TypeOf(table, field) ==
    IF field \in {F_id, F_created_at, F_updated_at} THEN "int"
    ELSE IF field = F_value THEN "float"
    ELSE "str"

Fits(table, field, v) ==
    IF TypeOf(table, field) = "str" THEN Kind(v) = "str" ELSE IsNumber(v)

StoreRejects(table, f) ==
    LET v == f.value
        op == f.operator
    IN  IF op \in {OP_eq, OP_ne} THEN v # NONE /\ ~Fits(table, f.field, v)
        ELSE IF op \in {OP_gt, OP_ge, OP_lt, OP_le} THEN ~Fits(table, f.field, v)
        ELSE IF op \in {OP_in, OP_not_in} THEN
            \/ Kind(v) # "list"
            \/ \E i \in 1..Len(Val(v)) : ~Fits(table, f.field, Val(v)[i])
        ELSE IF op \in {OP_is, OP_is_not} THEN v # NONE /\ Kind(v) # "bool"
        ELSE IF op \in {OP_like, OP_ilike} THEN
            TypeOf(table, f.field) # "str" \/ Kind(v) # "str"
        ELSE \/ Kind(v) # "list"
             \/ ~Fits(table, f.field, Val(v)[1])
             \/ ~Fits(table, f.field, Val(v)[2])

\* ------------------------------------------------------------------------
\* Queries (src/database/models.py)

\* select(cls)
select(table) == [table |-> table, where |-> <<>>]

\* as_or ignored: the conditions are always conjoined
Where_AlwaysAnd(query, fs, as_or) ==
    [query EXCEPT !.where = Append(@, [as_or |-> FALSE, conditions |-> fs])]

\* "if as_or: query.where(or_(*conditions)) else: query.where(*conditions)"
Where(query, fs, as_or) ==
    [query EXCEPT !.where = Append(@, [as_or |-> as_or, conditions |-> fs])]

\* apply_filter without "if not filters: return query"
apply_filter_NoEmptyCheck(query, fs, as_or) == Where(query, fs, as_or)

\* Base.apply_filter, for a list of filters none of which raises
apply_filter(query, fs, as_or) ==
    IF fs = <<>> THEN query ELSE Where(query, fs, as_or)

\* one where-clause holds of a row
ClauseHolds(row, clause) ==
    IF clause.as_or
    THEN \E i \in 1..Len(clause.conditions) : Condition(row, clause.conditions[i]) = "T"
    ELSE \A i \in 1..Len(clause.conditions) : Condition(row, clause.conditions[i]) = "T"

\* the row is selected by the query: every where-clause holds
Selects(query, row) == \A k \in 1..Len(query.where) : ClauseHolds(row, query.where[k])

\* the rows of the table the query selects, in table order
Matching(query, rows) == SelectSeq(rows, LAMBDA r : Selects(query, r))

\* ------------------------------------------------------------------------
\* Pagination (src/database/pagination.py)

Max(a, b) == IF a >= b THEN a ELSE b
Min(a, b) == IF a <= b THEN a ELSE b

\* the offset computed from page instead of page - 1
PageParams_OffsetFromPage(page, size, sort_by, sort_order) ==
    [page |-> page, size |-> size, offset |-> page * size,
     sort_by |-> sort_by, sort_order |-> sort_order]

\* PageParams.__init__
PageParams(page, size, sort_by, sort_order) ==
    [page |-> page, size |-> size, offset |-> (page - 1) * size,
     sort_by |-> sort_by, sort_order |-> sort_order]

\* PageParams(): page 1, size 100, created_at desc
DefaultPageSize == 100
DefaultPageParams == PageParams(1, DefaultPageSize, F_created_at, S_desc)

\* the page count rounded down instead of up
TotalPages_RoundedDown(n, size) == Max(n \div size, 1)

\* "max((total + page_params.size - 1) // page_params.size, 1)", size # 0
TotalPages(n, size) == Max((n + size - 1) \div size, 1)

\* the keys of s, read in order, respect the ORDER BY clause
InOrder(s, sort_by, sort_order) ==
    \A i \in 1..(Len(s) - 1) :
        IF sort_order = S_asc
        THEN ~Less(s[i + 1][sort_by], s[i][sort_by])
        ELSE ~Less(s[i][sort_by], s[i + 1][sort_by])

\* every order in which the store may return rows under the ORDER BY clause
\* (rows with equal keys come in any order)
Orderings(rows, sort_by, sort_order) ==
    LET n == Len(rows)
        perms == {p \in [1..n -> 1..n] : \A i, j \in 1..n : i # j => p[i] # p[j]}
    IN  {s \in {[i \in 1..n |-> rows[p[i]]] : p \in perms} : InOrder(s, sort_by, sort_order)}

\* OFFSET offset LIMIT limit
OffsetLimit(s, offset, limit) ==
    IF offset >= Len(s) \/ limit = 0 THEN <<>>
    ELSE SubSeq(s, offset + 1, Min(offset + limit, Len(s)))

\* the envelope with has_next and has_prev taken from each other's argument
PaginatedResponse_FlagsSwapped(items, n, page, size, pages, has_next, has_prev) ==
    [items |-> items, total |-> n, page |-> page, size |-> size, pages |-> pages,
     has_next |-> has_prev, has_prev |-> has_next]

PaginatedResponse(items, n, page, size, pages, has_next, has_prev) ==
    [items |-> items, total |-> n, page |-> page, size |-> size, pages |-> pages,
     has_next |-> has_next, has_prev |-> has_prev]

\* has_next computed with <= in place of <
Envelope_NextInclusive(items, n, pages, pp) ==
    PaginatedResponse(items, n, pp.page, pp.size, pages, pp.page <= pages, pp.page > 1)

\* the envelope paginate_query builds from the fetched items
Envelope(items, n, pages, pp) ==
    PaginatedResponse(items, n, pp.page, pp.size, pages, pp.page < pages, pp.page > 1)

\* ------------------------------------------------------------------------
\* Base.list (src/database/models.py)

\* a search_filters argument: None, a list of Filter, or (get_readings) a
\* PageParams object handed over in its place
SearchList(fs) == <<"list", fs>>
SearchObject(pp) == <<"PageParams", pp>>

\* the Python part of Base.list raises before paginate_query is called
ListRaises(table, fs, sfs) ==
    \/ \E i \in 1..Len(fs) : FilterRaises(table, fs[i])
    \/ /\ sfs # NONE
       /\ \/ Kind(sfs) = "PageParams"
          \/ Kind(sfs) = "list" /\ \E i \in 1..Len(Val(sfs)) : FilterRaises(table, Val(sfs)[i])

\* the query Base.list hands to paginate_query
ListQuery(table, fs, sfs) ==
    LET q == apply_filter(select(table), fs, FALSE)
    IN  IF sfs # NONE THEN apply_filter(q, Val(sfs), TRUE) ELSE q

\* the store refuses to execute the query
QueryRejected(query) ==
    \E k \in 1..Len(query.where) :
        \E i \in 1..Len(query.where[k].conditions) :
            StoreRejects(query.table, query.where[k].conditions[i])

\* ------------------------------------------------------------------------
\* Settings and the page-parameter dependencies
\* (src/core/config.py, src/core/dependencies.py)

ACCESS_TOKEN_EXPIRE_HOURS == 24
REFRESH_TOKEN_EXPIRE_HOURS == 24 * 7

\* the attributes of the settings object that have a value without an
\* environment: Settings declares no other numeric field, and extra = "ignore"
\* drops every undeclared name
Settings ==
    [ENVIRONMENT |-> "production",
     API_NAME |-> "enerlytics",
     ACCESS_TOKEN_EXPIRE_HOURS |-> ACCESS_TOKEN_EXPIRE_HOURS,
     REFRESH_TOKEN_EXPIRE_HOURS |-> REFRESH_TOKEN_EXPIRE_HOURS]

\* settings.<name> raises AttributeError
SettingMissing(name) == name \notin DOMAIN Settings

HTTPException(code) == <<"HTTPException", code>>
AttributeError == <<"AttributeError">>
Returned(pp) == <<"PageParams", pp>>

\* the body shared by get_page_params and get_readings_page_params, which
\* differ in the setting they read
PageParamsDependency(max_name, page, size, sort_by, sort_order) ==
    IF page < 1 THEN HTTPException(400)
    ELSE IF size < 1 THEN HTTPException(400)
    ELSE IF SettingMissing(max_name) THEN AttributeError
    ELSE IF size > Settings[max_name] THEN HTTPException(400)
    ELSE Returned(PageParams(page, size, sort_by, sort_order))

get_page_params(page, size, sort_by, sort_order) ==
    PageParamsDependency("MAX_PAGE_SIZE", page, size, sort_by, sort_order)

get_readings_page_params(page, size, sort_by, sort_order) ==
    PageParamsDependency("READINGS_MAX_PAGE_SIZE", page, size, sort_by, sort_order)

\* ------------------------------------------------------------------------
\* Search filter builder (src/core/query_parser.py)

\* the term is used as the pattern, without the surrounding wildcards
build_search_filters_BareTerm(search_term, fields) ==
    IF search_term = NONE \/ search_term = <<>> \/ fields = <<>> THEN <<>>
    ELSE [i \in 1..Len(fields) |-> Filter(fields[i], OP_ilike, StrV(search_term))]

build_search_filters(search_term, fields) ==
    IF search_term = NONE \/ search_term = <<>> \/ fields = <<>> THEN <<>>
    ELSE [i \in 1..Len(fields) |->
            Filter(fields[i], OP_ilike, StrV(<<"%">> \o search_term \o <<"%">>))]

\* ------------------------------------------------------------------------
\* Inputs of the model

\* query-string keys offered to the parser
K_status_in == F_status \o <<"_", "_">> \o OP_in
K_status_bogus == F_status \o <<"_", "_", "b", "o", "g", "u", "s">>
K_status_is == F_status \o <<"_", "_">> \o OP_is
K_value_between == F_value \o <<"_", "_">> \o OP_between
K_secret_ilike == F_secret \o <<"_", "_">> \o OP_ilike
Keys == {F_status, K_status_in, K_status_bogus, K_status_is, K_value_between,
         F_secret, K_secret_ilike, S_page}

\* raw values offered to the parser: None and strings
V_empty == StrV(<<>>)
V_info == StrV(S_info)
V_Null == StrV(<<"N", "u", "l", "l">>)
V_True == StrV(<<"T", "r", "u", "e">>)
V_10 == StrV(<<"1", "0">>)
V_10_20 == StrV(<<"1", "0", ",", "2", "0">>)
V_a_b__c == StrV(<<"a", ",", "b", ",", " ", ",", "c">>)
RawValues == {NONE, V_empty, V_info, V_Null, V_True, V_10, V_10_20, V_a_b__c}

Params == {[key |-> k, value |-> v] : k \in Keys, v \in RawValues}

\* a dict: at most MaxParams entries, no key twice
QueryParamDicts ==
    UNION {{q \in [1..n -> Params] : \A i, j \in 1..n : i # j => q[i].key # q[j].key}
           : n \in 0..MaxParams}

AllowedFieldLists == {<<>>, <<F_status>>, <<F_status, F_value>>}

\* AlertCreate payloads; titles are unique in the table
T_X == <<"X">>
T_b == <<"b">>
T_ab == <<"a", "b">>
T_xb == <<"x", "b">>
M_b == <<"b">>
M_ax == <<"a", "x">>
M_x == <<"x">>
AlertInputs ==
    {[title |-> T_X, message |-> M_b, status |-> S_info],
     [title |-> T_b, message |-> M_ax, status |-> S_info],
     [title |-> T_ab, message |-> M_b, status |-> S_info],
     [title |-> T_xb, message |-> M_x, status |-> S_warning]}

\* values of readings
ReadingValues == {FloatV(15, 1), FloatV(2, 0)}

\* primary filter lists handed to Base.list
PrimaryFilterLists ==
    {<<>>,
     <<Filter(F_status, OP_eq, StrV(S_info))>>,
     <<Filter(F_status, OP_in, ListV(<<StrV(S_info), StrV(S_warning)>>)),
       Filter(F_title, OP_ne, StrV(T_b))>>,
     <<Filter(F_created_at, OP_eq, StrV(S_info))>>,
     <<Filter(F_secret, OP_eq, StrV(S_info))>>}

\* search_filters arguments handed to Base.list
SearchTerm == <<"x">>
SearchFilterArgs ==
    {NONE,
     SearchList(<<>>),
     SearchList(build_search_filters(SearchTerm, <<F_title, F_message>>))}

\* ORDER BY arguments: sort_by is free text, sort_order asc or desc
SortChoices == {<<F_created_at, S_desc>>, <<F_status, S_asc>>, <<F_secret, S_asc>>}

PageParamChoices ==
    {PageParams(p, s, o[1], o[2]) : p \in 1..MaxPage, s \in 0..MaxSize, o \in SortChoices}

\* ------------------------------------------------------------------------
\* Rows

AlertRow(id, now, a) ==
    (F_id :> IntV(id)) @@ (F_created_at :> IntV(now)) @@ (F_updated_at :> IntV(now))
    @@ (F_title :> StrV(a.title)) @@ (F_message :> StrV(a.message))
    @@ (F_status :> StrV(a.status))

ReadingRow(id, now, v) ==
    (F_id :> IntV(id)) @@ (F_created_at :> IntV(now)) @@ (F_updated_at :> IntV(now))
    @@ (F_value :> v)

Table(name) ==
    IF name = "alerts" THEN alerts
    ELSE IF name = "readings" THEN readings
    ELSE <<>>

RemoveIds(rows, ids) == SelectSeq(rows, LAMBDA r : r[F_id] \notin ids)

\* ------------------------------------------------------------------------
\* Initial state

NoRequest == [endpoint |-> "none", page |-> 0, size |-> 0, sort_by |-> <<>>,
              sort_order |-> <<>>, query |-> <<>>, search |-> <<>>, body |-> <<>>]

ListIdle ==
    /\ lpc = "idle"
    /\ caller = "none"
    /\ l_table = "none"
    /\ l_filters = <<>>
    /\ search_filters = NONE
    /\ page_params = DefaultPageParams
    /\ total = 0
    /\ total_pages = 0
    /\ changed = FALSE
    /\ response = NONE

RequestIdle ==
    /\ rpc = "idle"
    /\ request = NoRequest
    /\ http_status = 0
    /\ resolved = NONE

UNSET == <<"unset">>

ParamIdle ==
    /\ sp_key = <<>>
    /\ sp_value = NONE
    /\ sp_allowed = <<>>
    /\ sp_field = <<>>
    /\ sp_operator = <<>>
    /\ sp_parsed = UNSET
    /\ sp_filters = <<>>
    /\ spc = "idle"

NoAuthRequest == [endpoint |-> "none", token |-> <<"none">>]

\* a call of a token-creating function of AuthService with what it returned
TokenCall(fn, user_id, expires_delta, now, a_exp, a_expires_in, r_exp, r_expires_in) ==
    [fn |-> fn, user_id |-> user_id, expires_delta |-> expires_delta, now |-> now,
     access_exp |-> a_exp, access_expires_in |-> a_expires_in,
     refresh_exp |-> r_exp, refresh_expires_in |-> r_expires_in]
NoTokenCall == TokenCall("", 0, NONE, 0, 0, 0, 0, 0)

AuthIdle ==
    /\ users = {}
    /\ tokens = {}
    /\ token_blacklist = {}
    /\ auth_request = NoAuthRequest
    /\ auth_status = 0
    /\ logged_out = {}
    /\ token_response = NoTokenCall
    /\ current_user = NONE

SearchIdle ==
    /\ bs_term = <<>>
    /\ bs_fields = <<>>
    /\ bs_result = <<>>
    /\ bpc = "idle"

ParserIdle ==
    /\ query_params = <<>>
    /\ allowed_fields = <<>>
    /\ parsed_filters = <<>>
    /\ filters = <<>>
    /\ ppc = "input"

TablesEmpty ==
    /\ alerts = <<>>
    /\ readings = <<>>
    /\ clock = 0

Init ==
    /\ ParserIdle
    /\ TablesEmpty
    /\ ListIdle
    /\ RequestIdle
    /\ ParamIdle
    /\ SearchIdle
    /\ AuthIdle

\* a call of parse_filters about to be made, on any input of the bounded sets
InitParser ==
    /\ query_params \in QueryParamDicts
    /\ allowed_fields \in AllowedFieldLists
    /\ parsed_filters = <<>>
    /\ filters = <<>>
    /\ ppc = "input"
    /\ alerts = <<>>
    /\ readings = <<>>
    /\ clock = 0
    /\ ListIdle
    /\ RequestIdle
    /\ ParamIdle
    /\ SearchIdle
    /\ AuthIdle

\* ------------------------------------------------------------------------
\* The parser call

ParseFilters ==
    /\ ppc = "input"
    /\ parsed_filters' = [i \in 1..Len(query_params) |->
                            LoopBody(query_params[i], allowed_fields)]
    /\ filters' = parse_filters(query_params, allowed_fields)
    /\ ppc' = "done"
    /\ UNCHANGED <<query_params, allowed_fields, table_vars, list_vars, request_vars,
                   param_vars, search_vars,
                   auth_vars, current_user>>

\* ------------------------------------------------------------------------
\* One call of _parse_single_param, and one of build_search_filters

\* keys offered to _parse_single_param
Dunder == <<"_", "_">>
K_a_b_c == <<"a">> \o Dunder \o <<"b">> \o Dunder \o <<"c">>
K_status_3in == F_status \o <<"_">> \o Dunder \o OP_in
K_status_4in == F_status \o Dunder \o Dunder \o OP_in
K_status_ == F_status \o Dunder
K__in == Dunder \o OP_in
K_status_not_in == F_status \o Dunder \o OP_not_in
K_status_is_not == F_status \o Dunder \o OP_is_not
K_status_ilike == F_status \o Dunder \o OP_ilike
K_value_ge == F_value \o Dunder \o OP_ge
K_value_not_between == F_value \o Dunder \o OP_not_between
\* the keys of the examples in the docstrings of get_users and
\* get_coverage_areas: created_at__gte, id__not_in, parent_id__is
F_parent_id == <<"p", "a", "r", "e", "n", "t", "_", "i", "d">>
K_created_at_gte == F_created_at \o Dunder \o <<"g", "t", "e">>
K_id_not_in == F_id \o Dunder \o <<"n", "o", "t", "_", "i", "n">>
K_parent_id_is == F_parent_id \o Dunder \o OP_is
DocumentedKeys == {K_created_at_gte, K_id_not_in, K_parent_id_is}
\* an allow-list with the fields of these examples
DocumentedFields == <<F_id, F_created_at, F_parent_id>>

SingleKeys ==
    {F_status, F_value, F_created_at, K_a_b_c, K_status_3in, K_status_4in, K_status_,
     K__in, K_status_in, K_status_not_in, K_status_is, K_status_is_not,
     K_status_ilike, K_value_ge, K_value_between, K_value_not_between, K_status_bogus}
    \cup DocumentedKeys

\* raw values offered to _parse_single_param (the loop has dropped None and "")
V_false == StrV(S_false)
V_FALSE == StrV(<<"F", "A", "L", "S", "E">>)
V_none == StrV(S_none)
V_NONE == StrV(<<"N", "O", "N", "E">>)
V_10p5 == StrV(<<"1", "0", ".", "5">>)
V_10p5_20 == StrV(<<"1", "0", ".", "5", ",", "2", "0">>)
V_10_20p0 == StrV(<<"1", "0", ",", "2", "0", ".", "0">>)
V_sp10_sp20 == StrV(<<" ", "1", "0", " ", ",", " ", "2", "0", " ">>)
V_10_x == StrV(<<"1", "0", ",", "x">>)
V_10_ == StrV(<<"1", "0", ",">>)
V_1_2_3 == StrV(<<"1", ",", "2", ",", "3">>)
V_1p2p3 == StrV(<<"1", ".", "2", ".", "3">>)
V_dot == StrV(<<".">>)
V_m5 == StrV(<<"-", "5">>)
V_5p == StrV(<<"5", ".">>)
V_1x == StrV(<<"1", "x">>)
V_comma == StrV(<<",">>)
V_true_10 == StrV(S_true \o <<",">> \o <<"1", "0">>)
V_sp_true == StrV(<<" ">> \o S_true)
V_date == StrV(<<"2", "0", "2", "4", "-", "0", "1", "-", "0", "1">>)
V_a_b == StrV(<<"a", ",", "b">>)
V_null == StrV(S_null)

SingleValues ==
    {V_date, V_a_b, V_null, V_info, V_True, V_false, V_FALSE, V_Null, V_none, V_NONE, V_10, V_10p5, V_10_20,
     V_10p5_20, V_10_20p0, V_sp10_sp20, V_10_x, V_10_, V_1_2_3, V_1p2p3, V_dot, V_m5,
     V_5p, V_1x, V_comma, V_a_b__c, V_true_10, V_sp_true}

\* arguments offered to build_search_filters: at most MaxFields fields
MaxFields == 2
T_john == <<"j", "o", "h", "n">>
SearchTerms == {NONE, <<>>, SearchTerm, T_john, <<"%">>, <<" ">>}
SearchFieldLists == UNION {[1..n -> {F_title, F_message, F_status}] : n \in 0..MaxFields}

InitParam ==
    /\ ParserIdle
    /\ TablesEmpty
    /\ ListIdle
    /\ RequestIdle
    /\ sp_key \in SingleKeys
    /\ sp_value \in SingleValues
    /\ sp_allowed \in AllowedFieldLists \cup {DocumentedFields}
    /\ sp_field = <<>>
    /\ sp_operator = <<>>
    /\ sp_parsed = UNSET
    /\ sp_filters = <<>>
    /\ spc = "input"
    /\ SearchIdle
    /\ AuthIdle

InitSearch ==
    /\ ParserIdle
    /\ TablesEmpty
    /\ ListIdle
    /\ RequestIdle
    /\ ParamIdle
    /\ bs_term \in SearchTerms
    /\ bs_fields \in SearchFieldLists
    /\ bs_result = <<>>
    /\ bpc = "input"
    /\ AuthIdle

\* _parse_single_param: the locals are kept as the call leaves them
ParseSingleParam ==
    /\ spc = "input"
    /\ sp_field' = KeyField(sp_key)
    /\ sp_operator' = KeyOperator(sp_key)
    /\ sp_parsed' = IF \/ FieldRejected(KeyField(sp_key), sp_allowed)
                       \/ OperatorRejected(KeyOperator(sp_key))
                    THEN UNSET
                    ELSE _parse_value(sp_value, KeyOperator(sp_key))
    /\ sp_filters' = _parse_single_param(sp_key, sp_value, sp_allowed)
    /\ spc' = "done"
    /\ UNCHANGED <<sp_key, sp_value, sp_allowed>>
    /\ UNCHANGED <<parser_vars, table_vars, list_vars, request_vars, search_vars,
                   auth_vars, current_user>>

BuildSearchFilters ==
    /\ bpc = "input"
    /\ bs_result' = build_search_filters(bs_term, bs_fields)
    /\ bpc' = "done"
    /\ UNCHANGED <<bs_term, bs_fields>>
    /\ UNCHANGED <<parser_vars, table_vars, list_vars, request_vars, param_vars,
                   auth_vars, current_user>>

\* ------------------------------------------------------------------------
\* The alerts table (src/apps/alerts/router.py)

\* a write to the table a running call of Base.list selects from is noted
\* when it falls between the count query and the page query; the envelope is
\* built and returned without a suspension point, so no write falls between
\* the page query and the return
NoteWrite(table) ==
    /\ lpc \notin {"done", "raised"}
    /\ changed' = (changed \/ (lpc = "fetch" /\ l_table = table))
    /\ UNCHANGED <<lpc, caller, l_table, l_filters, search_filters, page_params,
                   total, total_pages, response>>

\* create_alert: the unique title makes a second insert fail with 400
CreateAlert ==
    /\ clock < MaxRows
    /\ \E a \in AlertInputs :
        /\ \A k \in 1..Len(alerts) : alerts[k][F_title] # StrV(a.title)
        /\ alerts' = Append(alerts, AlertRow(clock + 1, clock + 1, a))
    /\ clock' = clock + 1
    /\ NoteWrite("alerts")
    /\ UNCHANGED <<auth_vars, current_user, parser_vars, param_vars, search_vars,
                   readings, request_vars>>

\* delete_alert
DeleteAlert ==
    /\ \E k \in 1..Len(alerts) : alerts' = RemoveIds(alerts, {alerts[k][F_id]})
    /\ NoteWrite("alerts")
    /\ UNCHANGED <<auth_vars, current_user, parser_vars, param_vars, search_vars,
                   readings, clock, request_vars>>

\* ------------------------------------------------------------------------
\* Base.list and paginate_query

\* Base.list up to its call of paginate_query
Enter(c, table, fs, sfs, pp) ==
    /\ caller' = c
    /\ l_table' = table
    /\ l_filters' = fs
    /\ search_filters' = sfs
    /\ page_params' = pp
    /\ lpc' = IF ListRaises(table, fs, sfs) THEN "raised" ELSE "count"
    /\ total' = 0
    /\ total_pages' = 0
    /\ changed' = FALSE
    /\ response' = NONE

\* the count taken over the whole table instead of the filtered subquery
Count_WholeTable(query, rows) == Len(rows)

\* what the count query returns: the number of rows the query selects
Count(query, rows) == Len(Matching(query, rows))

\* paginate_query: the count query and the page arithmetic
PaginateCount ==
    /\ lpc = "count"
    /\ LET query == ListQuery(l_table, l_filters, search_filters)
           rows == Table(l_table)
       IN  IF QueryRejected(query)
           THEN /\ lpc' = "raised"
                /\ UNCHANGED <<total, total_pages>>
           ELSE /\ total' = Count(query, rows)
                /\ IF page_params.size = 0
                   THEN lpc' = "raised" /\ UNCHANGED total_pages
                   ELSE /\ total_pages' = TotalPages(total', page_params.size)
                        /\ lpc' = "fetch"
    /\ UNCHANGED <<caller, l_table, l_filters, search_filters, page_params,
                   changed, response>>
    /\ UNCHANGED <<auth_vars, current_user, parser_vars, param_vars, search_vars,
                   table_vars, request_vars>>

\* paginate_query: the page query and the envelope
PaginateFetch ==
    /\ lpc = "fetch"
    /\ LET query == ListQuery(l_table, l_filters, search_filters)
           rows == Table(l_table)
       IN  IF page_params.sort_by \notin Columns(l_table)
           THEN lpc' = "raised" /\ UNCHANGED response
           ELSE \E s \in Orderings(Matching(query, rows),
                                   page_params.sort_by, page_params.sort_order) :
                    /\ response' = Envelope(
                           OffsetLimit(s, page_params.offset, page_params.size),
                           total, total_pages, page_params)
                    /\ lpc' = "done"
    /\ UNCHANGED <<caller, l_table, l_filters, search_filters, page_params,
                   total, total_pages, changed>>
    /\ UNCHANGED <<auth_vars, current_user, parser_vars, param_vars, search_vars,
                   table_vars, request_vars>>

\* the variables of the call go back to their idle values
ListReset ==
    /\ lpc' = "idle"
    /\ caller' = "none"
    /\ l_table' = "none"
    /\ l_filters' = <<>>
    /\ search_filters' = NONE
    /\ page_params' = DefaultPageParams
    /\ total' = 0
    /\ total_pages' = 0
    /\ changed' = FALSE
    /\ response' = NONE

\* a caller of Base.list on the alerts table, with any arguments of the
\* bounded sets
ListCall ==
    /\ lpc = "idle"
    /\ \E fs \in PrimaryFilterLists, sfs \in SearchFilterArgs, pp \in PageParamChoices :
        Enter("direct", "alerts", fs, sfs, pp)
    /\ UNCHANGED <<auth_vars, current_user, parser_vars, param_vars, search_vars,
                   table_vars, request_vars>>

\* the call is over: its result was returned or its exception raised
ListReturn ==
    /\ caller = "direct"
    /\ lpc \in {"done", "raised"}
    /\ ListReset
    /\ UNCHANGED <<auth_vars, current_user, parser_vars, param_vars, search_vars,
                   table_vars, request_vars>>

\* ------------------------------------------------------------------------
\* The readings table (src/apps/data/router.py)

\* create_reading
CreateReading ==
    /\ clock < MaxRows
    /\ \E v \in ReadingValues :
        readings' = Append(readings, ReadingRow(clock + 1, clock + 1, v))
    /\ clock' = clock + 1
    /\ NoteWrite("readings")
    /\ UNCHANGED <<auth_vars, current_user, parser_vars, param_vars, search_vars,
                   alerts, request_vars>>

\* ------------------------------------------------------------------------
\* Endpoints (src/apps/*/router.py)

BulkLimit == 500

\* values a client may send for page and size
PageInputs == -1..MaxPage
SizeInputs == -1..MaxSize

\* query strings a client may send to a list endpoint
EndpointQueries == {<<>>, <<[key |-> F_status, value |-> V_info]>>}
SearchInputs == {<<>>, SearchTerm}

Request(endpoint, page, size, sort, query, search, body) ==
    [endpoint |-> endpoint, page |-> page, size |-> size, sort_by |-> sort[1],
     sort_order |-> sort[2], query |-> query, search |-> search, body |-> body]

\* the request ends with a response
Respond(code) ==
    /\ rpc' = "done"
    /\ http_status' = code

\* a list endpoint whose page parameters come from Depends(get_page_params):
\* the dependency runs before the handler body; the body parses the filters,
\* adds the endpoint's own ones, builds the search filters and calls Base.list
PagedList(endpoint, table, allowed, own_filters, search_fields, forbidden) ==
    /\ rpc = "idle"
    /\ lpc = "idle"
    /\ \E page \in PageInputs, size \in SizeInputs, sort \in SortChoices,
          query \in EndpointQueries, search \in SearchInputs :
        LET dep == get_page_params(page, size, sort[1], sort[2])
        IN  /\ request' = Request(endpoint, page, size, sort, query, search, <<>>)
            /\ resolved' = dep
            /\ IF Kind(dep) = "HTTPException"
               THEN Respond(Val(dep)) /\ UNCHANGED list_vars
               ELSE IF dep = AttributeError
               THEN Respond(500) /\ UNCHANGED list_vars
               ELSE IF forbidden
               THEN Respond(403) /\ UNCHANGED list_vars
               ELSE /\ Enter(endpoint, table,
                             parse_filters(query, allowed) \o own_filters,
                             SearchList(build_search_filters(search, search_fields)),
                             Val(dep))
                    /\ rpc' = "list"
                    /\ http_status' = 0
    /\ UNCHANGED <<auth_vars, parser_vars, param_vars, search_vars, table_vars>>

\* UserType (src/apps/users/schemas.py)
ADMIN == "admin"
USER == "user"
UserTypes == {ADMIN, USER}

\* get_users: admin only
GetUsers ==
    \E type \in UserTypes :
        /\ PagedList("get_users", "users",
                     <<F_id, F_created_at, F_updated_at>>, <<>>, <<>>, type # ADMIN)
        /\ current_user' = type

\* get_alerts: exclude_expired adds status != "expired"
GetAlerts ==
    \E exclude_expired \in BOOLEAN :
        /\ PagedList("get_alerts", "alerts",
                     <<F_id, F_title, F_message, F_status, F_created_at, F_updated_at>>,
                     IF exclude_expired
                     THEN <<Filter(F_status, OP_ne, StrV(S_expired))>> ELSE <<>>,
                     <<F_title, F_message, F_status>>, FALSE)
        /\ UNCHANGED current_user

GetCoverageAreas ==
    /\ PagedList("get_coverage_areas", "coverage_areas",
                 <<F_id, F_created_at, F_updated_at>>, <<>>, <<>>, FALSE)
    /\ UNCHANGED current_user

GetTransformers ==
    /\ PagedList("get_transformers", "transformers",
                 <<F_id, F_created_at, F_updated_at>>, <<>>, <<>>, FALSE)
    /\ UNCHANGED current_user

GetMeters ==
    /\ PagedList("get_meters", "meters",
                 <<F_id, F_created_at, F_updated_at>>, <<>>, <<>>, FALSE)
    /\ UNCHANGED current_user

\* get_readings: page_params comes from Depends() on the PageParams class, so
\* page and size are whatever integers the client sent; the handler passes
\* page_params as the third positional argument of list, which is
\* search_filters, and list pages with its default PageParams
GetReadings ==
    /\ rpc = "idle"
    /\ lpc = "idle"
    /\ \E page \in PageInputs, size \in SizeInputs, sort \in SortChoices,
          query \in EndpointQueries :
        LET pp == PageParams(page, size, sort[1], sort[2])
        IN  /\ request' = Request("get_readings", page, size, sort, query, <<>>, <<>>)
            /\ resolved' = Returned(pp)
            /\ Enter("get_readings", "readings",
                     parse_filters(query, <<F_id, F_value, F_created_at, F_updated_at>>),
                     SearchObject(pp), DefaultPageParams)
            /\ rpc' = "list"
            /\ http_status' = 0
    /\ UNCHANGED <<auth_vars, current_user, parser_vars, param_vars, search_vars,
                   table_vars>>

\* request bodies of the bulk endpoints
ReadingIds == {IntV(i) : i \in 1..MaxRows}
ReadingUpdates == {[id |-> i, value |-> v] : i \in ReadingIds, v \in ReadingValues \cup {NONE}}
Bodies(S) == UNION {[1..n -> S] : n \in 0..MaxBulk}

IdsOf(body) == [i \in 1..Len(body) |-> body[i].id]

\* Reading.bulk_create and Base.bulk_create: "db.add_all(objs); await
\* db.commit(); return": the rows are stored and the caller gets None
bulk_create(rows, objs_in, now) ==
    [rows |-> rows \o [i \in 1..Len(objs_in) |-> ReadingRow(now + i, now + i, objs_in[i])],
     returned |-> NONE]

\* bulk_create_readings: the two length checks, then bulk_create, then
\* "for reading in readings:" over what bulk_create returned, which raises
\* TypeError for None
BulkCreateReadings ==
    /\ rpc = "idle"
    /\ lpc = "idle"
    /\ \E readings_create \in Bodies(ReadingValues) :
        /\ clock + Len(readings_create) <= MaxRows
        /\ request' = Request("bulk_create_readings", 0, 0, <<<<>>, <<>>>>, <<>>, <<>>,
                              readings_create)
        /\ resolved' = NONE
        /\ IF Len(readings_create) > BulkLimit
           THEN Respond(400) /\ UNCHANGED table_vars
           ELSE IF readings_create = <<>>
           THEN Respond(400) /\ UNCHANGED table_vars
           ELSE LET created == bulk_create(readings, readings_create, clock)
                IN  /\ readings' = created.rows
                    /\ clock' = clock + Len(readings_create)
                    /\ UNCHANGED alerts
                    /\ IF created.returned = NONE
                       THEN Respond(500)
                       ELSE Respond(200)
    /\ UNCHANGED <<auth_vars, current_user, parser_vars, param_vars, search_vars,
                   list_vars>>

\* update_readings up to the return of ReadingDB.list
UpdateReadings ==
    /\ rpc = "idle"
    /\ lpc = "idle"
    /\ \E reading_updates \in Bodies(ReadingUpdates) :
        /\ request' = Request("update_readings", 0, 0, <<<<>>, <<>>>>, <<>>, <<>>,
                              reading_updates)
        /\ resolved' = NONE
        /\ IF Len(reading_updates) > BulkLimit
           THEN Respond(400) /\ UNCHANGED list_vars
           ELSE /\ Enter("update_readings", "readings",
                         <<Filter(F_id, OP_in, ListV(IdsOf(reading_updates)))>>,
                         NONE,
                         PageParams(1, Len(reading_updates), F_created_at, S_desc))
                /\ rpc' = "list"
                /\ http_status' = 0
    /\ UNCHANGED <<auth_vars, current_user, parser_vars, param_vars, search_vars,
                   table_vars>>

\* delete_readings up to the return of ReadingDB.list
DeleteReadings ==
    /\ rpc = "idle"
    /\ lpc = "idle"
    /\ \E reading_ids \in Bodies(ReadingIds) :
        /\ request' = Request("delete_readings", 0, 0, <<<<>>, <<>>>>, <<>>, <<>>,
                              reading_ids)
        /\ resolved' = NONE
        /\ Enter("delete_readings", "readings",
                 <<Filter(F_id, OP_in, ListV(reading_ids))>>,
                 NONE,
                 PageParams(1, Len(reading_ids), F_created_at, S_desc))
        /\ rpc' = "list"
        /\ http_status' = 0
    /\ UNCHANGED <<auth_vars, current_user, parser_vars, param_vars, search_vars,
                   table_vars>>

\* "for key, value in reading_update.model_dump().items(): if hasattr(...) and
\* value is not None: setattr(db_reading, key, value)", for every update of
\* the row; a row whose attributes changed gets a new updated_at on commit
UpdatedRow(row, reading_updates, now) ==
    LET mine == SelectSeq(reading_updates, LAMBDA u : u.id = row[F_id] /\ u.value # NONE)
        v == IF mine = <<>> THEN row[F_value] ELSE mine[Len(mine)].value
    IN  IF v = row[F_value] THEN row
        ELSE [row EXCEPT ![F_value] = v, ![F_updated_at] = IntV(now)]

\* the handler goes on after "await ....list(...)": an exception becomes a
\* 500; update_readings compares the lengths and writes; delete_readings
\* deletes the rows it got; the list endpoints return the envelope
ResumeAfterList ==
    /\ rpc = "list"
    /\ lpc \in {"done", "raised"}
    /\ IF lpc = "raised"
       THEN Respond(500) /\ UNCHANGED table_vars
       ELSE IF caller = "update_readings"
       THEN IF Len(response.items) # Len(request.body)
            THEN Respond(404) /\ UNCHANGED table_vars
            ELSE /\ Respond(200)
                 /\ LET got == {response.items[k][F_id] : k \in 1..Len(response.items)}
                        now == Max(clock, 1)
                    IN  readings' = [k \in 1..Len(readings) |->
                                       IF readings[k][F_id] \in got
                                       THEN UpdatedRow(readings[k], request.body, now)
                                       ELSE readings[k]]
                 /\ UNCHANGED <<alerts, clock>>
       ELSE IF caller = "delete_readings"
       THEN /\ Respond(204)
            /\ readings' = RemoveIds(readings,
                               {response.items[k][F_id] : k \in 1..Len(response.items)})
            /\ UNCHANGED <<alerts, clock>>
       ELSE Respond(200) /\ UNCHANGED table_vars
    /\ UNCHANGED <<auth_vars, current_user, parser_vars, param_vars, search_vars,
                   list_vars, request, resolved>>

\* the response was sent; the next request may come
RequestDone ==
    /\ rpc = "done"
    /\ rpc' = "idle"
    /\ request' = NoRequest
    /\ http_status' = 0
    /\ resolved' = NONE
    /\ current_user' = NONE
    /\ ListReset
    /\ UNCHANGED <<auth_vars, parser_vars, param_vars, search_vars, table_vars>>

\* ------------------------------------------------------------------------
\* The page-parameter dependencies called on their own

CallGetPageParams ==
    /\ rpc = "idle"
    /\ \E page \in PageInputs, size \in SizeInputs, sort \in SortChoices :
        /\ request' = Request("get_page_params", page, size, sort, <<>>, <<>>, <<>>)
        /\ resolved' = get_page_params(page, size, sort[1], sort[2])
    /\ Respond(0)
    /\ UNCHANGED <<auth_vars, current_user, parser_vars, param_vars, search_vars,
                   table_vars, list_vars>>

CallGetReadingsPageParams ==
    /\ rpc = "idle"
    /\ \E page \in PageInputs, size \in SizeInputs, sort \in SortChoices :
        /\ request' = Request("get_readings_page_params", page, size, sort,
                              <<>>, <<>>, <<>>)
        /\ resolved' = get_readings_page_params(page, size, sort[1], sort[2])
    /\ Respond(0)
    /\ UNCHANGED <<auth_vars, current_user, parser_vars, param_vars, search_vars,
                   table_vars, list_vars>>

\* ------------------------------------------------------------------------
\* Authentication (src/core/auth.py, src/core/dependencies.py,
\* src/apps/users/router.py)

ACCESS == "access"
REFRESH == "refresh"

\* a JWT signed by the service: its claims jti, type and user_id
Token(jti, type, user_id) == [jti |-> jti, type |-> type, user_id |-> user_id]
\* a bearer string jwt.decode refuses (JWTError)
Garbage == [jti |-> 0, type |-> "garbage", user_id |-> 0]
Presentable == tokens \cup {Garbage}

Unauthorized == HTTPException(401)
Payload(token) == <<"payload", token>>
Authenticated(token) == <<"CurrentUser", token>>

\* AuthService.check_blacklist raises 401
check_blacklist(jti, blacklist) == \E row \in blacklist : row.jti = jti

\* the token type is not looked at
VerifyTokenOfType_AnyType(token, type, blacklist) ==
    IF token = Garbage THEN Unauthorized
    ELSE IF check_blacklist(token.jti, blacklist) THEN Unauthorized
    ELSE Payload(token)

\* verify_access_token / verify_refresh_token
VerifyTokenOfType(token, type, blacklist) ==
    IF token = Garbage THEN Unauthorized
    ELSE IF token.type # type THEN Unauthorized
    ELSE IF check_blacklist(token.jti, blacklist) THEN Unauthorized
    ELSE Payload(token)
verify_access_token(token, blacklist) == VerifyTokenOfType(token, ACCESS, blacklist)
verify_refresh_token(token, blacklist) == VerifyTokenOfType(token, REFRESH, blacklist)

_get_current_user_any_token(token_type, token, blacklist, user_rows) ==
    LET payload == IF token_type = ACCESS
                   THEN verify_access_token(token, blacklist)
                   ELSE verify_refresh_token(token, blacklist)
    IN  IF payload = Unauthorized THEN Unauthorized
        ELSE IF \E u \in user_rows : u.id = token.user_id THEN Authenticated(token)
        ELSE Unauthorized
get_current_user(token, blacklist, user_rows) ==
    _get_current_user_any_token(ACCESS, token, blacklist, user_rows)
get_current_user_refresh(token, blacklist, user_rows) ==
    _get_current_user_any_token(REFRESH, token, blacklist, user_rows)

\* the pydantic schema TokenBlacklist: every field is required
TokenBlacklistSchema == {"jti", "token_type", "user_id", "blacklisted_at", "expires_at"}
\* the columns of the table TokenBlacklist
TokenBlacklistColumns ==
    {"id", "created_at", "updated_at", "jti", "token_type", "user_id", "expires_at"}
\* the keyword arguments logout_access and logout_refresh build the schema from
LogoutKeywords == {"jti", "token_type", "user_id", "expires_at"}

\* TokenBlacklist(**keywords) raises ValidationError: a required field is missing
ValidationError(keywords) == TokenBlacklistSchema \ keywords # {}
\* cls(**obj_in.model_dump()) raises TypeError: a key that is no column
CreateRaises == TokenBlacklistSchema \ TokenBlacklistColumns # {}

\* TokenBlacklistDB.get_or_create(db, obj_in, identifier="jti")
get_or_create(blacklist, token) ==
    IF \E row \in blacklist : row.jti = token.jti THEN blacklist
    ELSE blacklist \cup {[jti |-> token.jti, token_type |-> token.type,
                          user_id |-> token.user_id]}

AuthRequest(endpoint, token) == [endpoint |-> endpoint, token |-> token]

\* what a client may send as email and key
EmailInputs == 1..MaxUsers
KeyInputs == {"k1", "k2"}

\* a request that carries credentials in its body
CredentialRequest(endpoint, email, key, key_confirm) ==
    [endpoint |-> endpoint, token |-> NONE, email |-> email, key |-> key,
     key_confirm |-> key_confirm]

\* bcrypt.hashpw with a fresh salt, and bcrypt.checkpw
get_password_hash(password, salt) == <<"bcrypt", salt, password>>
verify_password(plain_password, hashed_password) == hashed_password[3] = plain_password

\* the unique index on email makes the INSERT fail
IntegrityError_Never(user_rows, email) == FALSE

IntegrityError(user_rows, email) == \E u \in user_rows : u.email = email

\* the id of a new row (uuid4): ids are opaque, the model names a user's id
\* after the email, which no other row has
NewId(email) == 10 + email

\* POST /auth/register: UserCreate checks key = key_confirm (422), the key is
\* hashed, Base.create inserts the row
Register ==
    \E email \in EmailInputs, type \in UserTypes, key \in KeyInputs,
       key_confirm \in KeyInputs :
        /\ auth_request' = CredentialRequest("register", email, key, key_confirm)
        /\ IF key # key_confirm
           THEN auth_status' = 422 /\ UNCHANGED users
           ELSE IF IntegrityError(users, email)
           THEN auth_status' = 400 /\ UNCHANGED users
           ELSE /\ auth_status' = 200
                /\ users' = users \cup
                      {[id |-> NewId(email), email |-> email, type |-> type,
                        hashed_key |-> get_password_hash(key, NewId(email))]}
        /\ UNCHANGED <<tokens, token_blacklist, logged_out, current_user, token_response>>
        /\ UNCHANGED <<parser_vars, table_vars, list_vars, request_vars, param_vars,
                       search_vars>>

\* "if not user or not AuthService.verify_password(...)", without the password
InvalidCredentials_EmailOnly(user_rows, email, key) ==
    ~\E u \in user_rows : u.email = email

\* "if not user or not AuthService.verify_password(login_data.key, user.hashed_key)"
InvalidCredentials(user_rows, email, key) ==
    ~\E u \in user_rows : u.email = email /\ verify_password(key, u.hashed_key)

\* timedelta(hours=, seconds=), in seconds
timedelta(hours, seconds) == <<"timedelta", hours * 3600 + seconds>>
total_seconds(delta) == delta[2]

\* "if expires_delta:": None and timedelta(0) are false
Truthy(expires_delta) == expires_delta # NONE /\ total_seconds(expires_delta) # 0

\* create_access_token: exp is now + expires_delta, or now + the configured
\* hours; expires_in=settings.ACCESS_TOKEN_EXPIRE_HOURS * 60
create_access_token(user_id, expires_delta, now, jti) ==
    LET expire == IF Truthy(expires_delta)
                  THEN now + total_seconds(expires_delta)
                  ELSE now + total_seconds(timedelta(ACCESS_TOKEN_EXPIRE_HOURS, 0))
    IN  [access_token |-> Token(jti, ACCESS, user_id),
         exp |-> expire,
         expires_in |-> ACCESS_TOKEN_EXPIRE_HOURS * 60]

\* create_refresh_token: expires_in=settings.REFRESH_TOKEN_EXPIRE_HOURS * 60
create_refresh_token(user_id, now, jti) ==
    LET expire == now + total_seconds(timedelta(REFRESH_TOKEN_EXPIRE_HOURS, 0))
    IN  [refresh_token |-> Token(jti, REFRESH, user_id),
         exp |-> expire,
         expires_in |-> REFRESH_TOKEN_EXPIRE_HOURS * 60]

\* create_token_pair(str(user.id)): two tokens with fresh jti, and the
\* expires_in of each
create_token_pair(user_id, issued, now) ==
    LET access_token == create_access_token(user_id, NONE, now, Cardinality(issued) + 1)
        refresh_token == create_refresh_token(user_id, now, Cardinality(issued) + 2)
    IN  [access_token |-> access_token.access_token,
         refresh_token |-> refresh_token.refresh_token,
         access_exp |-> access_token.exp,
         refresh_exp |-> refresh_token.exp,
         access_expires_in |-> access_token.expires_in,
         refresh_expires_in |-> refresh_token.expires_in]

\* POST /auth/login
Login ==
    \E email \in EmailInputs, key \in KeyInputs :
        /\ Cardinality(tokens) + 2 <= MaxTokens
        /\ auth_request' = CredentialRequest("login", email, key, key)
        /\ IF InvalidCredentials(users, email, key)
           THEN auth_status' = 401 /\ UNCHANGED tokens
           ELSE /\ auth_status' = 200
                /\ LET user == CHOOSE u \in users : u.email = email
                       pair == create_token_pair(user.id, tokens, clock)
                   IN  tokens' = tokens \cup {pair.access_token, pair.refresh_token}
        /\ UNCHANGED <<users, token_blacklist, logged_out, current_user, token_response>>
        /\ UNCHANGED <<parser_vars, table_vars, list_vars, request_vars, param_vars,
                       search_vars>>

\* GET /auth/me
Me ==
    \E token \in Presentable :
        /\ auth_request' = AuthRequest("me", token)
        /\ auth_status' =
              IF get_current_user(token, token_blacklist, users) = Unauthorized
              THEN 401 ELSE 200
        /\ UNCHANGED <<users, tokens, token_blacklist, logged_out, current_user, token_response>>
        /\ UNCHANGED <<parser_vars, table_vars, list_vars, request_vars, param_vars,
                       search_vars>>

\* POST /auth/refresh: the refresh token comes in the body
RefreshAccessToken ==
    \E token \in Presentable :
        /\ Cardinality(tokens) + 1 <= MaxTokens
        /\ auth_request' = AuthRequest("refresh", token)
        /\ IF verify_refresh_token(token, token_blacklist) = Unauthorized
           THEN auth_status' = 401 /\ UNCHANGED tokens
           ELSE /\ auth_status' = 200
                /\ tokens' = tokens \cup
                      {create_access_token(token.user_id, NONE, clock,
                                           Cardinality(tokens) + 1).access_token}
        /\ UNCHANGED <<users, token_blacklist, logged_out, current_user, token_response>>
        /\ UNCHANGED <<parser_vars, table_vars, list_vars, request_vars, param_vars,
                       search_vars>>

\* logout_access and logout_refresh after their dependency has run
Logout(endpoint, token, dependency) ==
    /\ auth_request' = AuthRequest(endpoint, token)
    /\ IF dependency = Unauthorized
       THEN auth_status' = 401 /\ UNCHANGED <<token_blacklist, logged_out>>
       ELSE /\ logged_out' = logged_out \cup {token}
            /\ IF ValidationError(LogoutKeywords) \/ CreateRaises
               THEN auth_status' = 500 /\ UNCHANGED token_blacklist
               ELSE /\ auth_status' = 200
                    /\ token_blacklist' = get_or_create(token_blacklist, token)
    /\ UNCHANGED <<users, tokens, current_user, token_response>>
    /\ UNCHANGED <<parser_vars, table_vars, list_vars, request_vars, param_vars,
                   search_vars>>

\* POST /auth/logout-access
LogoutAccess ==
    \E token \in Presentable :
        Logout("logout_access", token, get_current_user(token, token_blacklist, users))

\* POST /auth/logout-refresh
LogoutRefresh ==
    \E token \in Presentable :
        Logout("logout_refresh", token,
               get_current_user_refresh(token, token_blacklist, users))


\* ------------------------------------------------------------------------
\* The token-creating functions of AuthService called on their own

NowInputs == 0..MaxNow
DeltaInputs == {NONE} \cup {timedelta(0, s) : s \in {0, 1, 60, 3600}} \cup {timedelta(25, 0)}
UserIdInputs == {NewId(e) : e \in EmailInputs}

TokenFrame ==
    UNCHANGED <<users, tokens, token_blacklist, auth_request, auth_status, logged_out,
                current_user, parser_vars, table_vars, list_vars, request_vars,
                param_vars, search_vars>>

CreateAccessToken ==
    /\ \E user_id \in UserIdInputs, expires_delta \in DeltaInputs, now \in NowInputs :
        LET r == create_access_token(user_id, expires_delta, now, 1)
        IN  token_response' = TokenCall("create_access_token", user_id, expires_delta,
                                        now, r.exp, r.expires_in, 0, 0)
    /\ TokenFrame

CreateRefreshToken ==
    /\ \E user_id \in UserIdInputs, now \in NowInputs :
        LET r == create_refresh_token(user_id, now, 1)
        IN  token_response' = TokenCall("create_refresh_token", user_id, NONE, now,
                                        0, 0, r.exp, r.expires_in)
    /\ TokenFrame

CreateTokenPair ==
    /\ \E user_id \in UserIdInputs, now \in NowInputs :
        LET r == create_token_pair(user_id, {}, now)
        IN  token_response' = TokenCall("create_token_pair", user_id, NONE, now,
                                        r.access_exp, r.access_expires_in,
                                        r.refresh_exp, r.refresh_expires_in)
    /\ TokenFrame
\* ------------------------------------------------------------------------
\* Specifications

NextParser == ParseFilters
SpecParser == InitParser /\ [][NextParser]_vars

\* calls of Base.list on the alerts table while alerts are created and deleted
NextParam == ParseSingleParam
SpecParam == InitParam /\ [][NextParam]_vars

NextSearch == BuildSearchFilters
SpecSearch == InitSearch /\ [][NextSearch]_vars

NextAuth ==
    \/ Register
    \/ Login
    \/ Me
    \/ RefreshAccessToken
    \/ LogoutAccess
    \/ LogoutRefresh
SpecAuth == Init /\ [][NextAuth]_vars

NextTokens ==
    \/ CreateAccessToken
    \/ CreateRefreshToken
    \/ CreateTokenPair
SpecTokens == Init /\ [][NextTokens]_vars

NextList ==
    \/ CreateAlert
    \/ DeleteAlert
    \/ ListCall
    \/ PaginateCount
    \/ PaginateFetch
    \/ ListReturn
SpecList == Init /\ [][NextList]_vars

\* requests to the list endpoints and to the bulk update and delete of
\* readings, while readings are created
NextEndpoints ==
    \/ CreateReading
    \/ BulkCreateReadings
    \/ GetUsers
    \/ GetAlerts
    \/ GetCoverageAreas
    \/ GetTransformers
    \/ GetMeters
    \/ GetReadings
    \/ UpdateReadings
    \/ DeleteReadings
    \/ PaginateCount
    \/ PaginateFetch
    \/ ResumeAfterList
    \/ RequestDone
SpecEndpoints == Init /\ [][NextEndpoints]_vars

\* calls of the two page-parameter dependencies
NextPageParams ==
    \/ CallGetPageParams
    \/ CallGetReadingsPageParams
SpecPageParams == Init /\ [][NextPageParams]_vars
\* ------------------------------------------------------------------------
\* Properties of the query parser (SpecParser)

ParamField(i) == KeyField(query_params[i].key)
ParamOperator(i) == KeyOperator(query_params[i].key)
ParamHasValue(i) == query_params[i].value # NONE /\ query_params[i].value # StrV(<<>>)
ParamIsReserved(i) == query_params[i].key \in Range(ReservedKeys)

RECURSIVE Flatten(_)
Flatten(ss) == IF ss = <<>> THEN <<>> ELSE Head(ss) \o Flatten(Tail(ss))

Without(s, i) == [k \in 1..(Len(s) - 1) |-> IF k < i THEN s[k] ELSE s[k + 1]]

\* C1: for every allow-list, the empty one included, a parameter whose field
\* part is not a member of allowed_fields produces zero Filters, whatever its
\* operator suffix and value.
C1_AllowListEnforcement ==
    ppc = "done" =>
        \A i \in 1..Len(query_params) :
            ParamField(i) \notin Range(allowed_fields) => parsed_filters[i] = <<>>

Qualifies(i) ==
    /\ ~ParamIsReserved(i)
    /\ ParamHasValue(i)
    /\ ParamField(i) \in Range(allowed_fields)
    /\ ParamOperator(i) \in Range(SUPPORTED_OPERATORS)
    /\ _parse_value(query_params[i].value, ParamOperator(i)) # NONE

\* the indices of the qualifying parameters, in iteration order
RECURSIVE QualifyingFrom(_)
QualifyingFrom(i) ==
    IF i > Len(query_params) THEN <<>>
    ELSE (IF Qualifies(i) THEN <<i>> ELSE <<>>) \o QualifyingFrom(i + 1)

\* C10: the parser returns exactly one Filter for each parameter that is not
\* a reserved key, has a non-empty non-absent value, names an allowed field
\* and a supported operator and whose value coerces to a non-absent value,
\* none for every other parameter, and the Filters come in the iteration
\* order of query_params.
C10_ParserOutputShape ==
    ppc = "done" =>
        LET q == QualifyingFrom(1)
        IN  /\ Len(filters) = Len(q)
            /\ \A k \in 1..Len(q) :
                /\ k <= Len(filters)
                /\ filters[k].field = ParamField(q[k])
                /\ filters[k].operator = ParamOperator(q[k])
                /\ filters[k].value =
                     _parse_value(query_params[q[k]].value, ParamOperator(q[k]))
            /\ \A i \in 1..Len(query_params) :
                Len(parsed_filters[i]) = IF Qualifies(i) THEN 1 ELSE 0

\* ------------------------------------------------------------------------
\* Properties of Base.list and paginate_query (SpecList)

Items == response.items
RowsOf(name) == {Table(name)[k] : k \in 1..Len(Table(name))}
ItemSet == {Items[k] : k \in 1..Len(Items)}

\* the row satisfies every filter of the list
SatisfiesEvery(row, fs) == \A i \in 1..Len(fs) : Condition(row, fs[i]) = "T"
\* the row satisfies at least one filter of the list
SatisfiesSome(row, fs) == \E i \in 1..Len(fs) : Condition(row, fs[i]) = "T"

\* the call applies search filters: search_filters is a non-empty list
SearchApplied == search_filters # NONE /\ Kind(search_filters) = "list"
                 /\ Val(search_filters) # <<>>

\* the rows of the table that satisfy every primary filter and at least one
\* search filter
PrimaryAndSearch ==
    {r \in RowsOf(l_table) :
        SatisfiesEvery(r, l_filters) /\ SatisfiesSome(r, Val(search_filters))}

\* the first position of the page and the number of rows a page holds when
\* n rows are selected
PageStart == (page_params.page - 1) * page_params.size
PageLength(n) == Min(page_params.size, Max(n - PageStart, 0))

\* C3: with primary filters applied with AND and search filters applied with
\* OR, the query selects exactly the rows that satisfy every primary filter
\* and at least one search filter: the page holds only such rows, holds as
\* many of them as the page has room for, and the count is their number.
C3_FilterComposition ==
    (lpc = "done" /\ SearchApplied) =>
        /\ ItemSet \subseteq PrimaryAndSearch
        /\ Cardinality(ItemSet) = Len(Items)
        /\ Len(Items) = PageLength(Cardinality(PrimaryAndSearch))
        /\ ~changed => total = Cardinality(PrimaryAndSearch)

\* a page with a row that matches one searched field only, taken from a
\* table that also holds a row matching no searched field and a row that
\* matches the search but fails a primary filter
W3_FilterComposition ==
    /\ lpc = "done"
    /\ SearchApplied
    /\ l_filters # <<>>
    /\ Len(Val(search_filters)) = 2
    /\ \E r \in ItemSet :
        \E i, j \in 1..2 :
            /\ Condition(r, Val(search_filters)[i]) = "T"
            /\ Condition(r, Val(search_filters)[j]) = "F"
    /\ \E r \in RowsOf(l_table) :
        SatisfiesEvery(r, l_filters) /\ ~SatisfiesSome(r, Val(search_filters))
    /\ \E r \in RowsOf(l_table) :
        ~SatisfiesEvery(r, l_filters) /\ SatisfiesSome(r, Val(search_filters))

\* the least n with n * size >= t
Ceil(t, size) == CHOOSE n \in 0..t : n * size >= t /\ \A m \in 0..(n - 1) : m * size < t

\* C6: for total >= 0 and size >= 1 the page count is
\* max(ceil(total / size), 1): never 0, 1 with no items when total is 0, and
\* 6 for total 105 and size 20.
C6_PageCount ==
    /\ lpc \in {"fetch", "done"} =>
        /\ total >= 0
        /\ page_params.size >= 1
        /\ total_pages = Max(Ceil(total, page_params.size), 1)
        /\ total_pages >= 1
    /\ lpc = "done" =>
        /\ response.pages = total_pages
        /\ response.total = total
        /\ (total = 0 /\ ~changed) => (response.pages = 1 /\ Items = <<>>)
    /\ TotalPages(105, 20) = 6

\* an envelope whose last page is partly filled: 3 rows in pages of 2
W6_PageCount ==
    /\ lpc = "done"
    /\ response.total = 3
    /\ response.size = 2
    /\ response.pages = 2

\* C7: in every envelope has_next is (page < pages), has_prev is (page > 1),
\* and page and size are those of the PageParams passed in.
C7_EnvelopeFlags ==
    lpc = "done" =>
        /\ response.has_next = (response.page < response.pages)
        /\ response.has_prev = (response.page > 1)
        /\ response.page = page_params.page
        /\ response.size = page_params.size

\* an envelope of a middle page: a page before it and a page after it
W7_EnvelopeFlags ==
    /\ lpc = "done"
    /\ response.page = 2
    /\ response.pages = 3
    /\ response.has_next
    /\ response.has_prev

\* the rows of the table the compiled query selects
Selected == {r \in RowsOf(l_table) :
                Selects(ListQuery(l_table, l_filters, search_filters), r)}

\* C8: for a fixed table and fixed filters the total is the number of all
\* rows that satisfy the compiled filters, whatever page, size, sort_by and
\* sort_order are, and every returned item satisfies the filters.
C8_TotalIndependent ==
    /\ (lpc \in {"fetch", "done"} /\ ~changed) => total = Cardinality(Selected)
    /\ lpc = "done" =>
        /\ response.total = total
        /\ ItemSet \subseteq Selected

\* alerts with status info, warning, info listed with the filter
\* status == info: total 2 and two items, both info
W8_TotalIndependent ==
    /\ lpc = "done"
    /\ ~changed
    /\ l_filters = <<Filter(F_status, OP_eq, StrV(S_info))>>
    /\ search_filters = NONE
    /\ Len(alerts) = 3
    /\ alerts[1][F_status] = StrV(S_info)
    /\ alerts[2][F_status] = StrV(S_warning)
    /\ alerts[3][F_status] = StrV(S_info)
    /\ response.total = 2
    /\ Len(Items) = 2
    /\ \A k \in 1..2 : Items[k][F_status] = StrV(S_info)

\* C9: when the table did not change between the count and the fetch, items
\* is the run at positions offset .. offset + size - 1, offset being
\* (page - 1) * size, of the selected rows put in sort_by order in the
\* sort_order direction; so it has at most size rows and exactly
\* min(size, max(total - offset, 0)).
C9_PageContents ==
    (lpc = "done" /\ ~changed) =>
        /\ Len(Items) <= page_params.size
        /\ Len(Items) = Min(page_params.size, Max(total - PageStart, 0))
        /\ \E s \in Orderings(Matching(ListQuery(l_table, l_filters, search_filters),
                                       Table(l_table)),
                              page_params.sort_by, page_params.sort_order) :
            /\ Range(s) = Selected
            /\ \A i \in 1..Len(Items) : Items[i] = s[PageStart + i]

\* the second page, partly filled, of three selected rows in pages of two
W9_PageContents ==
    /\ lpc = "done"
    /\ ~changed
    /\ page_params.page = 2
    /\ page_params.size = 2
    /\ total = 3
    /\ Len(Items) = 1

\* C28: for page >= 1, size >= 1 and total >= 0, has_next is true exactly
\* when rows exist beyond the current page, that is when page * size < total;
\* for a page beyond the last one (page > pages) has_next is false, has_prev
\* is true, and items is empty when the table did not change between the
\* count and the fetch.
C28_HasNextAgreesWithData ==
    (lpc = "done" /\ response.page >= 1 /\ response.size >= 1) =>
        /\ response.total >= 0
        /\ response.has_next = (response.page * response.size < response.total)
        /\ response.page > response.pages =>
              /\ ~response.has_next
              /\ response.has_prev
              /\ ~changed => Items = <<>>

\* page 3 of a result of two rows in pages of one
W28_HasNextAgreesWithData ==
    /\ lpc = "done"
    /\ ~changed
    /\ response.total = 2
    /\ response.size = 1
    /\ response.page = 3
    /\ response.pages = 2
    /\ Items = <<>>

\* the call has no search filter: search_filters is None or the empty list
NoSearch == search_filters = NONE \/ search_filters = SearchList(<<>>)

\* the rows of the table that satisfy every primary filter
PrimaryOnly == {r \in RowsOf(l_table) : SatisfiesEvery(r, l_filters)}

\* C29: apply_filter with an empty filter list returns the query unchanged
\* in AND mode and in OR mode, so a list call with no search term (None or
\* an empty search_filters) returns exactly the rows selected by the primary
\* filters, and a call with no filters at all returns every row.
C29_EmptyFilterListIdentity ==
    /\ lpc # "idle" =>
          LET q == apply_filter(select(l_table), l_filters, FALSE)
          IN  \A as_or \in BOOLEAN :
                  /\ apply_filter(select(l_table), <<>>, as_or) = select(l_table)
                  /\ apply_filter(q, <<>>, as_or) = q
    /\ (lpc = "done" /\ NoSearch) =>
          /\ ItemSet \subseteq PrimaryOnly
          /\ Cardinality(ItemSet) = Len(Items)
          /\ Len(Items) = PageLength(Cardinality(PrimaryOnly))
          /\ ~changed => total = Cardinality(PrimaryOnly)
          /\ l_filters = <<>> =>
                /\ PrimaryOnly = RowsOf(l_table)
                /\ ~changed => total = Len(Table(l_table))

\* a call with primary filters and an empty search list that returned a row
\* from a table holding a row the primary filters refuse
W29_EmptyFilterListIdentity ==
    /\ lpc = "done"
    /\ search_filters = SearchList(<<>>)
    /\ l_filters # <<>>
    /\ Items # <<>>
    /\ PrimaryOnly # RowsOf(l_table)

\* ------------------------------------------------------------------------
\* Properties of the endpoints (SpecEndpoints) and of the page-parameter
\* dependencies (SpecPageParams)

Endpoints == {"get_users", "get_alerts", "get_coverage_areas", "get_transformers",
              "get_meters", "get_readings", "update_readings", "delete_readings"}

\* a call of paginate_query made for an endpoint is under way or has returned
InPaginateQuery == lpc \in {"count", "fetch", "done"} /\ caller \in Endpoints

\* C4: in every call of paginate_query reached from an endpoint the page
\* parameters satisfy page >= 1 and size >= 1, so size is never 0 inside
\* paginate_query. (The claim also bounds size by the endpoint's maximum page
\* size; the settings define no maximum, so that part has no value to be
\* compared with and is left out of the formula.)
C4_PageParamsInvariant ==
    InPaginateQuery => (page_params.page >= 1 /\ page_params.size >= 1)

\* C5: get_page_params and get_readings_page_params answer 400 when page < 1
\* or size < 1 or size exceeds the configured maximum, and otherwise return a
\* PageParams with exactly the given page, size, sort_by and sort_order and
\* offset (page - 1) * size. Whatever the maximum is, it is at least 1: the
\* outcome is a 400 or a PageParams, a 400 for page < 1 or size < 1, and the
\* exact PageParams for page >= 1 and size = 1.
C5_BoundaryValidation ==
    (rpc = "done" /\ request.endpoint \in {"get_page_params", "get_readings_page_params"}) =>
        LET exact == Returned([page |-> request.page, size |-> request.size,
                               offset |-> (request.page - 1) * request.size,
                               sort_by |-> request.sort_by,
                               sort_order |-> request.sort_order])
        IN  /\ resolved \in {HTTPException(400), exact}
            /\ (request.page < 1 \/ request.size < 1) => resolved = HTTPException(400)
            /\ (request.page >= 1 /\ request.size = 1) => resolved = exact

\* ------------------------------------------------------------------------
\* Claims about one call of _parse_single_param (SpecParam)

HasDunder(s) == \E i \in 1..(Len(s) - 1) : s[i] = "_" /\ s[i + 1] = "_"
InFamily == {OP_in, OP_not_in}
BetweenFamily == {OP_between, OP_not_between}
ScalarOperators == Range(SUPPORTED_OPERATORS) \ (InFamily \cup BetweenFamily)

\* the call passed the field and operator checks and parsed the value
ValueParsed == spc = "done" /\ sp_parsed # UNSET
FieldAccepted == sp_allowed # <<>> /\ sp_field \in Range(sp_allowed)

\* the comma-separated tokens of the raw value, trimmed
CommaCount(s) == Cardinality({i \in 1..Len(s) : s[i] = ","})
Trimmed(t) == t = <<>> \/ (t[1] # " " /\ t[Len(t)] # " ")
RawTokens == split(Val(sp_value), ",")
TokenAt(i) == strip(RawTokens[i])
ParsesAsNumber(t) == IntParses(t) \/ FloatParses(t)

\* s is lit in some letter case
SameLetter(c, l) == c = l \/ \E k \in 1..26 : Lower[k] = l /\ Upper[k] = c
EqualsIgnoreCase(s, lit) ==
    Len(s) = Len(lit) /\ \A i \in 1..Len(s) : SameLetter(s[i], lit[i])
IsBoolLiteral(s) == EqualsIgnoreCase(s, S_true) \/ EqualsIgnoreCase(s, S_false)
IsNullLiteral(s) == EqualsIgnoreCase(s, S_null) \/ EqualsIgnoreCase(s, S_none)

\* C11: a key is split at the first "__" only: the part before it is the
\* field, the whole remainder the operator ('a__b__c' gives 'a' and 'b__c');
\* a key without "__" is the field, with operator "=="; status=info yields
\* one Filter (status, ==, "info").
C11_KeySplitting ==
    spc = "done" =>
        /\ ~HasDunder(sp_key) => (sp_field = sp_key /\ sp_operator = OP_eq)
        /\ HasDunder(sp_key) =>
              /\ sp_key = sp_field \o Dunder \o sp_operator
              /\ ~HasDunder(sp_field \o <<"_">>)
        /\ sp_key = K_a_b_c =>
              (sp_field = <<"a">> /\ sp_operator = <<"b", "_", "_", "c">>)
        /\ (sp_key = F_status /\ sp_value = V_info /\ FieldAccepted) =>
              sp_filters = <<Filter(F_status, OP_eq, StrV(S_info))>>

W11_KeySplitting ==
    /\ spc = "done"
    /\ sp_key = K_a_b_c
    /\ sp_field = <<"a">>
    /\ sp_operator = <<"b", "_", "_", "c">>

\* C12: for between / not between with exactly two tokens that both parse
\* as numbers, the value is a 2-element list whose bounds are both floats if
\* either token contains '.', and both ints otherwise: '10,20' gives
\* [10, 20] and '10.5,20' gives [10.5, 20.0].
C12_BetweenNumericCoercion ==
    (/\ ValueParsed
     /\ sp_operator \in BetweenFamily
     /\ CommaCount(Val(sp_value)) = 1
     /\ ParsesAsNumber(TokenAt(1)) /\ ParsesAsNumber(TokenAt(2))) =>
        /\ Kind(sp_parsed) = "list"
        /\ Len(Val(sp_parsed)) = 2
        /\ \A i \in 1..2 :
              Kind(Val(sp_parsed)[i]) =
                 IF Contains(TokenAt(1), ".") \/ Contains(TokenAt(2), ".")
                 THEN "float" ELSE "int"
        /\ sp_value = V_10_20 => sp_parsed = ListV(<<IntV(10), IntV(20)>>)
        /\ sp_value = V_10p5_20 => sp_parsed = ListV(<<FloatV(105, 1), FloatV(20, 0)>>)

\* C13: for between / not between, a value with a token count other than 2
\* produces no Filter; with 2 tokens a Filter is always produced, with the
\* trimmed raw strings as bounds if either token fails to parse as a number.
C13_BetweenArity ==
    (ValueParsed /\ sp_operator \in BetweenFamily) =>
        /\ CommaCount(Val(sp_value)) # 1 => sp_filters = <<>>
        /\ CommaCount(Val(sp_value)) = 1 =>
              /\ Len(sp_filters) = 1
              /\ sp_filters[1].field = sp_field
              /\ sp_filters[1].operator = sp_operator
              /\ Kind(sp_filters[1].value) = "list"
              /\ Len(Val(sp_filters[1].value)) = 2
              /\ (~ParsesAsNumber(TokenAt(1)) \/ ~ParsesAsNumber(TokenAt(2))) =>
                    /\ sp_filters[1].value = ListV(<<StrV(TokenAt(1)), StrV(TokenAt(2))>>)
                    /\ Trimmed(TokenAt(1)) /\ Trimmed(TokenAt(2))
        /\ sp_value = V_10 => sp_filters = <<>>
        /\ sp_value = V_1_2_3 => sp_filters = <<>>
        /\ sp_value = V_10_x =>
              sp_filters[1].value = ListV(<<StrV(<<"1", "0">>), StrV(<<"x">>)>>)

W13_BetweenArity ==
    /\ ValueParsed
    /\ sp_operator = OP_between
    /\ sp_value = V_1_2_3
    /\ sp_filters = <<>>

\* C14: for in / not in, the value is the list of the comma-separated tokens
\* of the raw value, trimmed, empty tokens removed, in order, every element a
\* string: 'a,b, ,c' gives ["a","b","c"].
C14_ListCoercion ==
    (ValueParsed /\ sp_operator \in InFamily) =>
        /\ Kind(sp_parsed) = "list"
        /\ \A i \in 1..Len(Val(sp_parsed)) :
              /\ Kind(Val(sp_parsed)[i]) = "str"
              /\ Val(Val(sp_parsed)[i]) # <<>>
              /\ Trimmed(Val(Val(sp_parsed)[i]))
              /\ ~Contains(Val(Val(sp_parsed)[i]), ",")
        /\ Val(sp_parsed) =
              SelectSeq([i \in 1..(CommaCount(Val(sp_value)) + 1) |-> StrV(TokenAt(i))],
                        LAMBDA v : Val(v) # <<>>)
        /\ sp_filters = <<Filter(sp_field, sp_operator, sp_parsed)>>
        /\ sp_value = V_a_b__c =>
              sp_parsed = ListV(<<StrV(<<"a">>), StrV(<<"b">>), StrV(<<"c">>)>>)
        /\ sp_value = V_true_10 =>
              sp_parsed = ListV(<<StrV(S_true), StrV(<<"1", "0">>)>>)

W14_ListCoercion ==
    /\ ValueParsed
    /\ sp_operator = OP_in
    /\ sp_value = V_a_b__c
    /\ Len(Val(sp_parsed)) = 3

C16_BooleanCoercion ==
    (/\ ValueParsed
     /\ sp_operator \in ScalarOperators
     /\ IsBoolLiteral(Val(sp_value))) =>
        sp_filters = <<Filter(sp_field, sp_operator,
                              BoolV(EqualsIgnoreCase(Val(sp_value), S_true)))>>

W16_BooleanCoercion ==
    /\ ValueParsed
    /\ sp_value = V_FALSE
    /\ sp_filters = <<Filter(F_status, OP_eq, BoolV(FALSE))>>

\* C17: for every operator outside the in and between families, a raw
\* string that is no boolean or null literal becomes a float when it contains
\* '.' and parses as one, an int when it contains no '.' and parses as one,
\* and otherwise stays the unchanged string.
C17_ScalarCoercion ==
    (/\ ValueParsed
     /\ sp_operator \in ScalarOperators
     /\ ~IsBoolLiteral(Val(sp_value))
     /\ ~IsNullLiteral(Val(sp_value))) =>
        LET s == Val(sp_value) IN
        /\ (Contains(s, ".") /\ FloatParses(s)) => Kind(sp_parsed) = "float"
        /\ (~Contains(s, ".") /\ IntParses(s)) => Kind(sp_parsed) = "int"
        /\ ~(\/ Contains(s, ".") /\ FloatParses(s)
             \/ ~Contains(s, ".") /\ IntParses(s)) => sp_parsed = sp_value
        /\ sp_filters = <<Filter(sp_field, sp_operator, sp_parsed)>>
        /\ sp_value = V_10 => sp_parsed = IntV(10)
        /\ sp_value = V_m5 => sp_parsed = IntV(-5)
        /\ sp_value = V_10p5 => sp_parsed = FloatV(105, 1)
        /\ sp_value = V_5p => sp_parsed = FloatV(5, 0)
        /\ sp_value \in {V_info, V_dot, V_1p2p3, V_1x, V_10_20, V_sp_true} =>
              sp_parsed = sp_value

W17_ScalarCoercion ==
    /\ ValueParsed
    /\ sp_operator = OP_ge
    /\ sp_value = V_10p5
    /\ sp_parsed = FloatV(105, 1)

\* ------------------------------------------------------------------------
\* Claim about build_search_filters (SpecSearch)

\* C18: build_search_filters(term, fields) is the empty list when term is
\* empty or absent or fields is empty; otherwise one Filter per field, in the order of
\* fields, each with operator 'ilike' and value '%' + term + '%'.
C18_SearchFilterBuilder ==
    bpc = "done" =>
        /\ (bs_term = NONE \/ bs_term = <<>> \/ bs_fields = <<>>) => bs_result = <<>>
        /\ (bs_term # NONE /\ bs_term # <<>> /\ bs_fields # <<>>) =>
              /\ Len(bs_result) = Len(bs_fields)
              /\ \A i \in 1..Len(bs_fields) :
                    /\ bs_result[i].field = bs_fields[i]
                    /\ bs_result[i].operator = <<"i", "l", "i", "k", "e">>
                    /\ Kind(bs_result[i].value) = "str"
                    /\ Len(Val(bs_result[i].value)) = Len(bs_term) + 2
                    /\ Head(Val(bs_result[i].value)) = "%"
                    /\ Val(bs_result[i].value)[Len(bs_term) + 2] = "%"
                    /\ SubSeq(Val(bs_result[i].value), 2, Len(bs_term) + 1) = bs_term
        /\ (bs_term = T_john /\ bs_fields = <<F_title, F_message>>) =>
              bs_result = <<Filter(F_title, OP_ilike, StrV(<<"%", "j", "o", "h", "n", "%">>)),
                            Filter(F_message, OP_ilike, StrV(<<"%", "j", "o", "h", "n", "%">>))>>

W18_SearchFilterBuilder ==
    /\ bpc = "done"
    /\ bs_term = T_john
    /\ bs_fields = <<F_title, F_message>>
    /\ Len(bs_result) = 2

\* ------------------------------------------------------------------------
\* Claim about token revocation (SpecAuth)

\* C19: once logout-access (resp. logout-refresh) has been performed for a
\* token, every later request that presents that token is refused with 401:
\* an access token on /auth/me, a refresh token on /auth/refresh.  A logout
\* has been performed for a token when the logout handler has run for it,
\* which is when the tests of the repository expect the response 200.
C19_RevocationPermanent ==
    (/\ auth_request.endpoint \in {"me", "refresh"}
     /\ auth_request.token \in logged_out) => auth_status = 401

\* ------------------------------------------------------------------------
\* Claim about the user listing (SpecEndpoints)

\* C20: GET /auth/users returns the paginated user list only when the
\* authenticated user's type is admin; for every authenticated user of
\* another type it responds 403, no filter is parsed and no user query is
\* executed.  Stated for requests whose page and size are at least 1.
C20_AdminOnlyUserListing ==
    (/\ request.endpoint = "get_users"
     /\ request.page >= 1
     /\ request.size >= 1) =>
        /\ current_user # ADMIN => (rpc = "done" /\ http_status = 403 /\ lpc = "idle")
        /\ (lpc # "idle" \/ http_status = 200) => current_user = ADMIN

\* ------------------------------------------------------------------------
\* Claims about registration, login and token types (SpecAuth)

\* C21: registering with an email that already belongs to a stored user
\* responds 400 and leaves the set of users unchanged; after any sequence of
\* register requests there is at most one user per email.  A registration is
\* a request whose key and key_confirm agree.
C21_DuplicateRegistration ==
    /\ [](\A u, v \in users : u.email = v.email => u = v)
    /\ [][(/\ auth_request'.endpoint = "register"
           /\ auth_request'.key = auth_request'.key_confirm
           /\ \E u \in users : u.email = auth_request'.email) =>
              (auth_status' = 400 /\ users' = users)]_vars

W21_DuplicateRegistration ==
    /\ auth_request.endpoint = "register"
    /\ auth_status = 400
    /\ \E u \in users : u.email = auth_request.email

\* C22: POST /auth/login issues a token pair (an access and a refresh token)
\* if and only if a user with the given email exists and the given key
\* verifies against that user's stored hash; in every other case it responds
\* 401 and issues no token.
C22_Login ==
    [][auth_request'.endpoint = "login" =>
          LET matching == {u \in users :
                              /\ u.email = auth_request'.email
                              /\ u.hashed_key[1] = "bcrypt"
                              /\ u.hashed_key[3] = auth_request'.key}
          IN  IF matching # {}
              THEN /\ auth_status' = 200
                   /\ tokens \subseteq tokens'
                   /\ Cardinality(tokens' \ tokens) = 2
                   /\ \E u \in matching :
                         /\ \E t \in tokens' \ tokens : t.type = ACCESS /\ t.user_id = u.id
                         /\ \E t \in tokens' \ tokens : t.type = REFRESH /\ t.user_id = u.id
              ELSE auth_status' = 401 /\ tokens' = tokens]_vars

W22_Login ==
    /\ auth_request.endpoint = "login"
    /\ auth_status = 200
    /\ Cardinality(tokens) >= 2

\* C27: a refresh token is never accepted where an access token is required
\* (/auth/me, /auth/logout-access), nor an access token where a refresh token
\* is required (/auth/refresh, /auth/logout-refresh): the request is refused
\* with 401 and issues and blacklists no token.
C27_TokenTypeSeparation ==
    [][(\/ /\ auth_request'.endpoint \in {"me", "logout_access"}
           /\ auth_request'.token.type = REFRESH
        \/ /\ auth_request'.endpoint \in {"refresh", "logout_refresh"}
           /\ auth_request'.token.type = ACCESS) =>
          /\ auth_status' = 401
          /\ tokens' = tokens
          /\ token_blacklist' = token_blacklist]_vars

W27_TokenTypeSeparation ==
    /\ auth_request.endpoint = "refresh"
    /\ auth_request.token.type = ACCESS
    /\ auth_status = 401

\* C23: the expires_in returned with a token (access_expires_in and
\* refresh_expires_in in a pair) is the number of seconds from issuance until
\* the token's exp: ACCESS_TOKEN_EXPIRE_HOURS * 3600, or the seconds of
\* expires_delta when one is passed, for an access token, and
\* REFRESH_TOKEN_EXPIRE_HOURS * 3600 for a refresh token.
C23_TokenLifetime ==
    /\ token_response.fn \in {"create_access_token", "create_token_pair"} =>
          /\ token_response.access_expires_in =
                 token_response.access_exp - token_response.now
          /\ token_response.access_expires_in =
                 IF token_response.expires_delta # NONE
                 THEN total_seconds(token_response.expires_delta)
                 ELSE ACCESS_TOKEN_EXPIRE_HOURS * 3600
    /\ token_response.fn \in {"create_refresh_token", "create_token_pair"} =>
          /\ token_response.refresh_expires_in =
                 token_response.refresh_exp - token_response.now
          /\ token_response.refresh_expires_in = REFRESH_TOKEN_EXPIRE_HOURS * 3600

\* C24: the filter examples of the list-endpoint documentation produce the
\* filter they describe: created_at__gte=V gives a greater-than-or-equal
\* Filter on created_at, id__not_in=a,b gives a not-in Filter on id with the
\* value [a, b], and parent_id__is=null gives the filter that keeps the rows
\* whose parent_id is null.
C24_DocumentedOperators ==
    (spc = "done" /\ sp_allowed = DocumentedFields) =>
        /\ (sp_key = K_created_at_gte /\ sp_value = V_date) =>
              sp_filters = <<Filter(F_created_at, OP_ge, V_date)>>
        /\ (sp_key = K_id_not_in /\ sp_value = V_a_b) =>
              sp_filters = <<Filter(F_id, OP_not_in,
                                    ListV(<<StrV(<<"a">>), StrV(<<"b">>)>>))>>
        /\ (sp_key = K_parent_id_is /\ sp_value = V_null) =>
              sp_filters = <<Filter(F_parent_id, OP_is, NONE)>>

\* C25: POST /readings/bulk with n readings responds 400 and stores nothing
\* when n = 0 or n > 500; for every 1 <= n <= 500 it stores all n readings
\* and answers with the summary (status 200).
C25_BulkCreate ==
    [][(rpc = "idle" /\ request'.endpoint = "bulk_create_readings") =>
          LET n == Len(request'.body)
          IN  IF n = 0 \/ n > BulkLimit
              THEN http_status' = 400 /\ readings' = readings
              ELSE /\ http_status' = 200
                   /\ Len(readings') = Len(readings) + n
                   /\ SubSeq(readings', 1, Len(readings)) = readings]_vars

\* ------------------------------------------------------------------------
\* Claims about the list endpoints and the bulk endpoints (SpecEndpoints)

ListEndpoints == {"get_users", "get_alerts", "get_coverage_areas", "get_transformers",
                  "get_meters", "get_readings"}

\* a list request with page and size at least 1, no filter parameter, the
\* default sort column and, for the user listing, an admin as caller
WellFormedListRequest ==
    /\ request.endpoint \in ListEndpoints
    /\ request.page >= 1
    /\ request.size >= 1
    /\ request.query = <<>>
    /\ request.sort_by = F_created_at
    /\ request.endpoint = "get_users" => current_user = ADMIN

\* C26: for every list endpoint the request's page parameters are the ones
\* handed to paginate_query and only lists of Filter are handed to
\* apply_filter, so a well-formed list request succeeds and the envelope's
\* page and size equal the requested page and size.
C26_UniformListPipeline ==
    WellFormedListRequest =>
        /\ lpc # "idle" =>
              /\ Kind(search_filters) \in {"none", "list"}
              /\ page_params.page = request.page
              /\ page_params.size = request.size
        /\ rpc = "done" =>
              /\ http_status = 200
              /\ response.page = request.page
              /\ response.size = request.size

\* the ids of the stored readings
StoredIds == {readings[k][F_id] : k \in 1..Len(readings)}

\* the row after the step is the row before it with the non-null value of an
\* update listed for its id (updated_at is the store's bookkeeping)
ReceivedUpdate(before, after, body) ==
    /\ after[F_id] = before[F_id]
    /\ after[F_created_at] = before[F_created_at]
    /\ \E i \in 1..Len(body) :
          /\ body[i].id = before[F_id]
          /\ after[F_value] = IF body[i].value # NONE THEN body[i].value
                              ELSE before[F_value]

\* C30: PUT /readings modifies no stored reading and responds 404 when at
\* least one requested id has no stored reading; when every id exists, each
\* listed reading receives exactly the non-null fields of its update and all
\* other readings stay unchanged; a list longer than 500 is rejected with 400
\* and changes nothing.
C30_BulkUpdateAllOrNothing ==
    [][(request'.endpoint = "update_readings" /\ rpc # "done" /\ rpc' = "done") =>
          LET body == request'.body
          IN  IF Len(body) > BulkLimit
              THEN http_status' = 400 /\ readings' = readings
              ELSE IF \E i \in 1..Len(body) : body[i].id \notin StoredIds
              THEN http_status' = 404 /\ readings' = readings
              ELSE /\ Len(readings') = Len(readings)
                   /\ \A k \in 1..Len(readings) :
                         IF \E i \in 1..Len(body) : body[i].id = readings[k][F_id]
                         THEN ReceivedUpdate(readings[k], readings'[k], body)
                         ELSE readings'[k] = readings[k]]_vars

====
